---- MODULE Spec2Model ----
(***************************************************************************)
(* A model of the iMessage archiver core (internal/archiver/archiver.go):  *)
(* gap detection against the remote listing, per-date local processing,    *)
(* classification of export output, the single batch transfer, and the     *)
(* cleanup of the local batch root by the deferred call and by the         *)
(* signal-handler goroutine.                                               *)
(*                                                                         *)
(* Strings are sequences of one-character strings, so that formatting,     *)
(* prefix stripping and splitting are computed and not assumed.            *)
(* A calendar date is a triple <<year, month, day>>.                       *)
(***************************************************************************)
EXTENDS Integers, Sequences, FiniteSets, TLC

VARIABLES
    today,          \* time.Now() of findMissingArchives, date part
    daysToCheck,    \* config.DaysToCheck
    probeOK,        \* whether the ssh listing command exits with status 0
    remoteLines,    \* the lines the ssh listing command prints
    pc,             \* position of the main flow in Run
    datesToProcess, \* Run's datesToProcess
    idx,            \* index of the date the loop of Run is at
    hasDataToSync,  \* Run's hasDataToSync
    runErr,         \* the error Run is returning ("" for nil)
    tree,           \* directories that exist at or under localRootDir
    content,        \* entries of each existing per-date directory
    notified,       \* signal.Notify has registered sigChan
    sigChan,        \* number of signals buffered in sigChan (capacity 1)
    hpc,            \* position of the signal-handler goroutine
    ended,          \* the process has exited
    exitStatus,     \* its exit status
    verdicts,       \* history: verdict of isDirectoryEmpty per gap date
    exportLog,      \* history: dates for which the export tool was started
    syncLog,        \* history: per-date directories present at each sync start
    cleanupCount,   \* history: number of calls of cleanup(localRootDir)
    faults,         \* history: the failures injected so far
    scanDir,        \* isDirectoryEmpty alone: the entries os.ReadDir returns
    scanResult,     \* isDirectoryEmpty alone: its result, "none" before the call
    sigLog,         \* history: positions of Run at which a signal reached sigChan
    run,            \* number of the current start of the program (1 or 2)
    plan,           \* what the export tool finds per date, where that is fixed
    firstDates,     \* history: datesToProcess of the first start
    firstVerdicts,  \* history: verdicts of the first start
    cfgIn,          \* config.Load alone: the fields of the configuration file
    cfgEnv,         \* config.Load alone: what the system calls of Load return
    cfgOut,         \* config.Load alone: what main got from Load
    toolOut,        \* exportMessages alone: exit status and output of the tool
    exportErr,      \* exportMessages alone: the error it returned
    argLog,         \* history: start and end date of each started export
    remoteQueries,  \* history: number of calls of getRemoteArchiveStructure
    remoteArchives, \* the map findMissingArchives got from the remote listing
    logIn,          \* logger alone: the level string handed to New
    logger,         \* logger alone: the Logger New returned, and its level
    logOut,         \* logger alone: the lines written to stdout and stderr
    logCalls        \* history: the severities of the logging calls made

vars == <<today, daysToCheck, probeOK, remoteLines, pc, datesToProcess, idx,
          hasDataToSync, runErr, tree, content, notified, sigChan, hpc,
          ended, exitStatus, verdicts, exportLog, syncLog, cleanupCount,
          faults, scanDir, scanResult, sigLog, run, plan, firstDates,
          firstVerdicts, cfgIn, cfgEnv, cfgOut, toolOut, exportErr, argLog,
          remoteQueries, remoteArchives, logIn, logger, logOut, logCalls>>

-----------------------------------------------------------------------------
(* Bounds *)

\* largest lookback window given to findMissingArchives alone
MaxDays == 3
\* largest lookback window of a whole run
MaxRunDays == 2
\* largest number of entries in a classified directory
MaxEntries == 3

\* lines in the output of the export tool
MaxOutputLines == 2

\* logging calls made on one Logger
MaxLogCalls == 3

-----------------------------------------------------------------------------
(* Strings *)

DigitChars == <<"0", "1", "2", "3", "4", "5", "6", "7", "8", "9">>

Digit(n) == DigitChars[n + 1]

\* time.Format of a two-digit field ("01", "02")
Pad2(n) == <<Digit((n \div 10) % 10), Digit(n % 10)>>

\* time.Format of the year field ("2006")
Pad4(n) == <<Digit((n \div 1000) % 10), Digit((n \div 100) % 10),
             Digit((n \div 10) % 10), Digit(n % 10)>>

HasPrefix(s, p) == Len(s) >= Len(p) /\ SubSeq(s, 1, Len(p)) = p

\* strings.TrimPrefix
TrimPrefix(s, p) == IF HasPrefix(s, p) THEN SubSeq(s, Len(p) + 1, Len(s)) ELSE s

\* strings.Split(s, sep) for a one-character separator
RECURSIVE Split(_, _)
Split(s, sep) ==
    IF \A i \in 1..Len(s) : s[i] # sep
    THEN <<s>>
    ELSE LET i == CHOOSE k \in 1..Len(s) :
                      s[k] = sep /\ \A j \in 1..(k - 1) : s[j] # sep
         IN  <<SubSeq(s, 1, i - 1)>> \o Split(SubSeq(s, i + 1, Len(s)), sep)

-----------------------------------------------------------------------------
(* Calendar: time.Time.AddDate and time.Time.Format on the date part *)

Years == 2023..2024

IsLeap(y) == (y % 4 = 0) /\ ((y % 100 # 0) \/ (y % 400 = 0))

DaysBefore == <<0, 31, 59, 90, 120, 151, 181, 212, 243, 273, 304, 334, 365>>

DaysBeforeMonth(y, m) == DaysBefore[m] + (IF m > 2 /\ IsLeap(y) THEN 1 ELSE 0)

DaysBeforeYear(y) ==
    365 * (y - 1) + ((y - 1) \div 4) - ((y - 1) \div 100) + ((y - 1) \div 400)

\* number of the day d in the proleptic Gregorian calendar
DayNumber(d) == DaysBeforeYear(d[1]) + DaysBeforeMonth(d[1], d[2]) + d[3]

CivilFromDay(n) ==
    LET y == CHOOSE yy \in Years :
                 DaysBeforeYear(yy) < n /\ n <= DaysBeforeYear(yy + 1)
        r == n - DaysBeforeYear(y)
        m == CHOOSE mm \in 1..12 :
                 DaysBeforeMonth(y, mm) < r /\ r <= DaysBeforeMonth(y, mm + 1)
    IN  <<y, m, r - DaysBeforeMonth(y, m)>>

\* t.AddDate(0, 0, days)
AddDate(d, days) == CivilFromDay(DayNumber(d) + days)

\* t.Format("2006-01-02")
FormatISO(d) == Pad4(d[1]) \o <<"-">> \o Pad2(d[2]) \o <<"-">> \o Pad2(d[3])

\* filepath.Join(year, month, day) below localRootDir, as path components
DatePath(d) == <<Pad4(d[1]), Pad2(d[2]), Pad2(d[3])>>

-----------------------------------------------------------------------------
(* Remote probe and gap analysis *)

\* config.RemoteArchivePath
RemoteArchivePath == <<"/", "b">>

\* the line the remote find prints for the archive directory of date d
RemoteLine(d) ==
    RemoteArchivePath \o <<"/">> \o Pad4(d[1]) \o <<"/">> \o Pad2(d[2])
                      \o <<"/">> \o Pad2(d[3])

\* LineKeys that takes the first three components of a deeper path
LineKeysAnyDepth(line) ==
    LET relativePath == TrimPrefix(TrimPrefix(line, RemoteArchivePath), <<"/">>)
        parts == Split(relativePath, "/")
    IN  IF Len(parts) >= 3
        THEN {parts[1] \o <<"-">> \o parts[2] \o <<"-">> \o parts[3]}
        ELSE {}

\* the key one output line adds to the archives map ({} when it adds none)
LineKeys(line) ==
    LET relativePath == TrimPrefix(TrimPrefix(line, RemoteArchivePath), <<"/">>)
        parts == Split(relativePath, "/")
    IN  IF Len(parts) = 3
        THEN {parts[1] \o <<"-">> \o parts[2] \o <<"-">> \o parts[3]}
        ELSE {}

\* getRemoteArchiveStructure that reports a listing without lines as an error
getRemoteArchiveStructureStrict(ok, lines) ==
    IF ~ok \/ lines = {}
    THEN [err |-> TRUE, archives |-> {}]
    ELSE [err |-> FALSE, archives |-> UNION {LineKeys(l) : l \in lines}]
\* getRemoteArchiveStructure: the error flag and the archives map (its keys)
getRemoteArchiveStructure(ok, lines) ==
    IF ~ok
    THEN [err |-> TRUE, archives |-> {}]
    ELSE [err |-> FALSE, archives |-> UNION {LineKeys(l) : l \in lines}]

\* MissingFrom with the test of the map inverted
RECURSIVE MissingFromInverted(_, _, _, _)
MissingFromInverted(t, n, archives, i) ==
    IF i > n
    THEN <<>>
    ELSE LET checkDate == AddDate(t, 0 - i)
             dateStr == FormatISO(checkDate)
         IN  IF dateStr \in archives
             THEN <<checkDate>> \o MissingFromInverted(t, n, archives, i + 1)
             ELSE MissingFromInverted(t, n, archives, i + 1)

\* the loop of findMissingArchives from iteration i on
RECURSIVE MissingFrom(_, _, _, _)
MissingFrom(t, n, archives, i) ==
    IF i > n
    THEN <<>>
    ELSE LET checkDate == AddDate(t, 0 - i)
             dateStr == FormatISO(checkDate)
         IN  IF dateStr \notin archives
             THEN <<checkDate>> \o MissingFrom(t, n, archives, i + 1)
             ELSE MissingFrom(t, n, archives, i + 1)

\* FallbackFrom with the loop bound i < DaysToCheck
RECURSIVE FallbackFromExclusive(_, _, _)
FallbackFromExclusive(t, n, i) ==
    IF i >= n
    THEN <<>>
    ELSE <<AddDate(t, 0 - i)>> \o FallbackFromExclusive(t, n, i + 1)

\* the fallback loop of findMissingArchives from iteration i on
RECURSIVE FallbackFrom(_, _, _)
FallbackFrom(t, n, i) ==
    IF i > n
    THEN <<>>
    ELSE <<AddDate(t, 0 - i)>> \o FallbackFrom(t, n, i + 1)

\* findMissingArchives with both loops starting at i = 0
findMissingArchivesFromToday(t, n, ok, lines) ==
    LET probe == getRemoteArchiveStructure(ok, lines)
    IN  IF probe.err
        THEN [dates |-> FallbackFrom(t, n, 0), err |-> FALSE]
        ELSE [dates |-> MissingFrom(t, n, probe.archives, 0), err |-> FALSE]

\* findMissingArchives: the returned dates and the returned error
findMissingArchives(t, n, ok, lines) ==
    LET probe == getRemoteArchiveStructure(ok, lines)
    IN  IF probe.err
        THEN [dates |-> FallbackFrom(t, n, 1), err |-> FALSE]
        ELSE [dates |-> MissingFrom(t, n, probe.archives, 1), err |-> FALSE]

-----------------------------------------------------------------------------
(* Classification of an export directory *)

\* size limit of an "empty" orphaned.html, in bytes
OrphanedThreshold == 1024

\* A directory entry: its name, its kind, the size Info() reports, the
\* number of entries of a subdirectory, and whether the follow-up system
\* call on it (os.ReadDir of attachments, Info of orphaned.html) succeeds.
Entry(name, kind, size, nsub, ok) ==
    [name |-> name, kind |-> kind, size |-> size, nsub |-> nsub, ok |-> ok]

\* os.DirEntry.IsDir
IsDir(e) == e.kind = "dir"

NoFlags == [hasOnlyEmptyArtifacts |-> TRUE, hasAttachmentsDir |-> FALSE,
            hasOrphanedHTML |-> FALSE, foundOtherContent |-> FALSE]

\* ScanEntry without the test of the entries of attachments
ScanEntryNoSubCheck(f, e) ==
    IF e.name = "attachments"
    THEN IF IsDir(e)
         THEN IF ~e.ok
              THEN [f EXCEPT !.hasAttachmentsDir = TRUE,
                             !.hasOnlyEmptyArtifacts = FALSE]
              ELSE [f EXCEPT !.hasAttachmentsDir = TRUE]
         ELSE [f EXCEPT !.hasOnlyEmptyArtifacts = FALSE,
                        !.foundOtherContent = TRUE]
    ELSE IF e.name = "orphaned.html"
    THEN IF ~IsDir(e)
         THEN IF ~e.ok
              THEN [f EXCEPT !.hasOrphanedHTML = TRUE,
                             !.hasOnlyEmptyArtifacts = FALSE]
              ELSE IF e.size > OrphanedThreshold
                   THEN [f EXCEPT !.hasOrphanedHTML = TRUE,
                                  !.hasOnlyEmptyArtifacts = FALSE]
                   ELSE [f EXCEPT !.hasOrphanedHTML = TRUE]
         ELSE [f EXCEPT !.hasOnlyEmptyArtifacts = FALSE,
                        !.foundOtherContent = TRUE]
    ELSE [f EXCEPT !.hasOnlyEmptyArtifacts = FALSE,
                   !.foundOtherContent = TRUE]

\* ScanEntry with a default branch that skips the unknown entry
ScanEntryIgnoreOther(f, e) ==
    IF e.name = "attachments"
    THEN IF IsDir(e)
         THEN IF ~e.ok
              THEN [f EXCEPT !.hasAttachmentsDir = TRUE,
                             !.hasOnlyEmptyArtifacts = FALSE]
              ELSE IF e.nsub > 0
                   THEN [f EXCEPT !.hasAttachmentsDir = TRUE,
                                  !.hasOnlyEmptyArtifacts = FALSE]
                   ELSE [f EXCEPT !.hasAttachmentsDir = TRUE]
         ELSE [f EXCEPT !.hasOnlyEmptyArtifacts = FALSE,
                        !.foundOtherContent = TRUE]
    ELSE IF e.name = "orphaned.html"
    THEN IF ~IsDir(e)
         THEN IF ~e.ok
              THEN [f EXCEPT !.hasOrphanedHTML = TRUE,
                             !.hasOnlyEmptyArtifacts = FALSE]
              ELSE IF e.size > OrphanedThreshold
                   THEN [f EXCEPT !.hasOrphanedHTML = TRUE,
                                  !.hasOnlyEmptyArtifacts = FALSE]
                   ELSE [f EXCEPT !.hasOrphanedHTML = TRUE]
         ELSE [f EXCEPT !.hasOnlyEmptyArtifacts = FALSE,
                        !.foundOtherContent = TRUE]
    ELSE f

\* the body of the switch of isDirectoryEmpty for one entry
ScanEntry(f, e) ==
    IF e.name = "attachments"
    THEN IF IsDir(e)
         THEN IF ~e.ok
              THEN [f EXCEPT !.hasAttachmentsDir = TRUE,
                             !.hasOnlyEmptyArtifacts = FALSE]
              ELSE IF e.nsub > 0
                   THEN [f EXCEPT !.hasAttachmentsDir = TRUE,
                                  !.hasOnlyEmptyArtifacts = FALSE]
                   ELSE [f EXCEPT !.hasAttachmentsDir = TRUE]
         ELSE [f EXCEPT !.hasOnlyEmptyArtifacts = FALSE,
                        !.foundOtherContent = TRUE]
    ELSE IF e.name = "orphaned.html"
    THEN IF ~IsDir(e)
         THEN IF ~e.ok
              THEN [f EXCEPT !.hasOrphanedHTML = TRUE,
                             !.hasOnlyEmptyArtifacts = FALSE]
              ELSE IF e.size > OrphanedThreshold
                   THEN [f EXCEPT !.hasOrphanedHTML = TRUE,
                                  !.hasOnlyEmptyArtifacts = FALSE]
                   ELSE [f EXCEPT !.hasOrphanedHTML = TRUE]
         ELSE [f EXCEPT !.hasOnlyEmptyArtifacts = FALSE,
                        !.foundOtherContent = TRUE]
    ELSE [f EXCEPT !.hasOnlyEmptyArtifacts = FALSE,
                   !.foundOtherContent = TRUE]

\* ScanFrom that leaves the loop after its first entry whatever it found
ScanFromFirstOnly(entries, i, f) ==
    IF i > Len(entries) THEN f ELSE ScanEntry(f, entries[i])
\* the loop of isDirectoryEmpty from entry i on, with its early break
RECURSIVE ScanFrom(_, _, _)
ScanFrom(entries, i, f) ==
    IF i > Len(entries)
    THEN f
    ELSE LET g == ScanEntry(f, entries[i])
         IN  IF ~g.hasOnlyEmptyArtifacts THEN g ELSE ScanFrom(entries, i + 1, g)

\* the if / else-if chain that computes isEmpty from the flags
Verdict(f, n) ==
    IF f.foundOtherContent THEN FALSE
    ELSE IF f.hasAttachmentsDir /\ f.hasOrphanedHTML /\ f.hasOnlyEmptyArtifacts
    THEN TRUE
    ELSE IF f.hasAttachmentsDir /\ ~f.hasOrphanedHTML /\ f.hasOnlyEmptyArtifacts
    THEN TRUE
    ELSE IF ~f.hasAttachmentsDir /\ f.hasOrphanedHTML /\ f.hasOnlyEmptyArtifacts
    THEN TRUE
    ELSE IF ~f.hasAttachmentsDir /\ ~f.hasOrphanedHTML /\ n > 0
            /\ f.hasOnlyEmptyArtifacts
    THEN TRUE
    ELSE FALSE

\* isDirectoryEmpty on the entries os.ReadDir returned
isDirectoryEmpty(entries) ==
    IF Len(entries) = 0
    THEN TRUE
    ELSE Verdict(ScanFrom(entries, 1, NoFlags), Len(entries))

-----------------------------------------------------------------------------
(* The local filesystem at and below localRootDir.  A directory is the     *)
(* sequence of its path components below localRootDir; <<>> is the root.   *)

\* localRootDir itself
RootDir == <<>>

Prefixes(p) == {SubSeq(p, 1, k) : k \in 0..Len(p)}

\* os.MkdirAll(p): p and every missing parent, localRootDir included
MkdirAll(t, p) == t \cup Prefixes(p)

\* RemoveAll that takes the parent directory of p along
RemoveAllParent(t, p) ==
    {q \in t : ~HasPrefix(q, SubSeq(p, 1, Len(p) - 1))}
\* os.RemoveAll(p): p and everything below it
RemoveAll(t, p) == {q \in t : ~HasPrefix(q, p)}

\* the per-date directories (YYYY/MM/DD) of a tree
DayDirs(t) == {q \in t : Len(q) = 3}

\* contents after the tree changed: removed directories lose their entries,
\* new directories start without entries
ContentOn(c, t) ==
    [q \in DayDirs(t) |-> IF q \in DOMAIN c THEN c[q] ELSE {}]

NameOrder == <<"attachments", "conversation1.html", "notes.txt", "orphaned.html">>

\* os.ReadDir: the entries sorted by filename
RECURSIVE ReadDirFrom(_, _)
ReadDirFrom(S, k) ==
    IF k > Len(NameOrder)
    THEN <<>>
    ELSE (IF \E e \in S : e.name = NameOrder[k]
          THEN <<CHOOSE e \in S : e.name = NameOrder[k]>>
          ELSE <<>>) \o ReadDirFrom(S, k + 1)

ReadDir(S) == ReadDirFrom(S, 1)

EmptyAttachments == Entry("attachments", "dir", 0, 0, TRUE)

SmallOrphaned == Entry("orphaned.html", "file", 24, 0, TRUE)

Conversation == Entry("conversation1.html", "file", 24, 0, TRUE)

\* what the export tool leaves in its export path when it succeeds: the two
\* by-products alone, or the by-products and a conversation file
ExportOutputs ==
    {{EmptyAttachments, SmallOrphaned},
     {EmptyAttachments, SmallOrphaned, Conversation}}

\* what the tool leaves for date d: the messages of a date are the same at
\* every start for which plan fixes them
ExportOutputsFor(d) == IF d \in DOMAIN plan THEN {plan[d]} ELSE ExportOutputs

\* WriteOutput of a tool that writes beside a file that is already there
WriteOutputBeside(existing, out) ==
    existing \cup {IF \E e \in existing : e.name = o.name
                   THEN [o EXCEPT !.name = "notes.txt"]
                   ELSE o : o \in out}

\* the export tool writes its files into the directory, replacing files of
\* the same name
WriteOutput(existing, out) ==
    out \cup {e \in existing : \A o \in out : o.name # e.name}

-----------------------------------------------------------------------------
(* exportMessages.  The combined output of the tool is a sequence of lines; *)
(* a marker is contained in the output when it is one of the lines.         *)

\* exportArgs with the end date written as the day of the month plus one
exportArgsNextDayNumber(d) ==
    [start |-> FormatISO(d), end |-> FormatISO(<<d[1], d[2], d[3] + 1>>)]

\* --start-date and --end-date of the command for targetDate d
exportArgs(d) ==
    [start |-> FormatISO(d), end |-> FormatISO(AddDate(d, 1))]

PermissionMarks ==
    {"Unable to read from chat database", "unable to open database file",
     "Full Disk Access"}

ConfigurationMark == "Invalid configuration"

\* strings.Contains(outputStr, mark)
Contains(output, mark) == \E i \in 1..Len(output) : output[i] = mark

\* strings.TrimSpace: blank lines at both ends are dropped
RECURSIVE TrimSpace(_)
TrimSpace(output) ==
    IF output = <<>> THEN <<>>
    ELSE IF Head(output) = "" THEN TrimSpace(Tail(output))
    ELSE IF output[Len(output)] = ""
    THEN TrimSpace(SubSeq(output, 1, Len(output) - 1))
    ELSE output

\* exportMessages that tests the exit status before the markers
exportMessagesExitFirst(tool) ==
    IF tool.exit # 0
    THEN [category |-> "generic", text |-> tool.output]
    ELSE IF \E m \in PermissionMarks : Contains(tool.output, m)
    THEN [category |-> "permission", text |-> TrimSpace(tool.output)]
    ELSE IF Contains(tool.output, ConfigurationMark)
    THEN [category |-> "configuration", text |-> tool.output]
    ELSE [category |-> "nil", text |-> <<>>]

\* exportMessages, lines 676-700: the error for the exit status and the
\* combined output of the tool (category "nil" for no error)
exportMessages(tool) ==
    IF \E m \in PermissionMarks : Contains(tool.output, m)
    THEN [category |-> "permission", text |-> TrimSpace(tool.output)]
    ELSE IF Contains(tool.output, ConfigurationMark)
    THEN [category |-> "configuration", text |-> tool.output]
    ELSE IF tool.exit # 0
    THEN [category |-> "generic", text |-> tool.output]
    ELSE [category |-> "nil", text |-> <<>>]

\* exportMessages has not been called on its own
NotExported == [called |-> FALSE, category |-> "nil", text |-> <<>>]

NoExportCall ==
    /\ toolOut = [exit |-> 0, output |-> <<>>]
    /\ exportErr = NotExported
-----------------------------------------------------------------------------
(* Run: the main flow *)

inputVars == <<today, daysToCheck, probeOK, remoteLines>>
handlerVars == <<notified, sigChan, hpc>>
procVars == <<ended, exitStatus>>
scanVars == <<scanDir, scanResult>>
rerunVars == <<run, plan, firstDates, firstVerdicts>>
cfgVars == <<cfgIn, cfgEnv, cfgOut>>
expVars == <<toolOut, exportErr>>
queryVars == <<remoteQueries, remoteArchives>>
logVars == <<logIn, logger, logOut, logCalls>>

\* CurDate of a loop that walks the list from its end
CurDateReversed == datesToProcess[Len(datesToProcess) + 1 - idx]
\* targetDate of the current iteration of the loop of Run
CurDate == datesToProcess[idx]

\* localExportDir of the current iteration
CurDir == DatePath(CurDate)

\* AfterFind of a Run without the early return on an empty gap list
AfterFindAlways(dates) == "mkroot"
\* where Run goes after findMissingArchives returned dates
AfterFind(dates) == IF Len(dates) = 0 THEN "exit" ELSE "mkroot"

\* AfterDate of a loop that transfers after each date
AfterDateSyncEach(i) == IF i = 0 THEN "mkdate" ELSE "checksync"
\* where Run goes when processDateLocally returned nil for date number i
AfterDate(i) == IF i + 1 <= Len(datesToProcess) THEN "mkdate" ELSE "checksync"

\* AfterDateError of a loop that logs the error and goes on
AfterDateErrorContinue == AfterDate(idx)

\* where Run goes when processDateLocally returned an error
AfterDateError == "deferred"

\* one call of getRemoteArchiveStructure for every day of the window
QueriesIssuedPerDate(n) == n
\* findMissingArchives, line 525: getRemoteArchiveStructure is called once,
\* before and outside the two loops over the days
QueriesIssued(n) == 1

\* Run, lines 453-462: findMissingArchives and the early return
FindMissing ==
    /\ ~ended /\ pc = "start"
    /\ LET r == findMissingArchives(today, daysToCheck, probeOK, remoteLines)
       IN  /\ datesToProcess' = r.dates
           /\ runErr' = IF r.err THEN "find" ELSE ""
           /\ pc' = IF r.err THEN "exit" ELSE AfterFind(r.dates)
    /\ faults' = IF probeOK THEN faults ELSE faults \cup {"probe"}
    /\ remoteQueries' = remoteQueries + QueriesIssued(daysToCheck)
    /\ remoteArchives' = getRemoteArchiveStructure(probeOK, remoteLines).archives
    /\ UNCHANGED <<inputVars, idx, hasDataToSync, tree, content, handlerVars,
                   procVars, verdicts, exportLog, syncLog, cleanupCount,
                   scanVars, sigLog, rerunVars, cfgVars, expVars, argLog,
                   logVars>>

\* Run, lines 472-476: os.MkdirAll(localRootDir) succeeds
MkRootOK ==
    /\ ~ended /\ pc = "mkroot"
    /\ tree' = MkdirAll(tree, RootDir)
    /\ pc' = "notify"
    /\ UNCHANGED <<inputVars, datesToProcess, idx, hasDataToSync, runErr,
                   content, handlerVars, procVars, verdicts, exportLog,
                   syncLog, cleanupCount, faults, scanVars, sigLog, rerunVars, cfgVars, expVars, argLog, queryVars, logVars>>

\* Run, lines 474-476: os.MkdirAll(localRootDir) fails
MkRootFail ==
    /\ ~ended /\ pc = "mkroot"
    /\ RootDir \notin tree
    /\ runErr' = "mkroot"
    /\ pc' = "exit"
    /\ faults' = faults \cup {"mkroot"}
    /\ UNCHANGED <<inputVars, datesToProcess, idx, hasDataToSync, tree,
                   content, handlerVars, procVars, verdicts, exportLog,
                   syncLog, cleanupCount, scanVars, sigLog, rerunVars, cfgVars, expVars, argLog, queryVars, logVars>>

\* Run, lines 478-497: signal.Notify, defer cleanupFunc(), go func()
SetupSignals ==
    /\ ~ended /\ pc = "notify"
    /\ notified' = TRUE
    /\ hpc' = "wait"
    /\ pc' = AfterDate(0)
    /\ UNCHANGED <<inputVars, datesToProcess, idx, hasDataToSync, runErr,
                   tree, content, sigChan, procVars, verdicts, exportLog,
                   syncLog, cleanupCount, faults, scanVars, sigLog, rerunVars, cfgVars, expVars, argLog, queryVars, logVars>>

\* processDateLocally, lines 613-617: os.MkdirAll(localExportDir) succeeds
MkDateOK ==
    /\ ~ended /\ pc = "mkdate"
    /\ tree' = MkdirAll(tree, CurDir)
    /\ content' = ContentOn(content, tree')
    /\ pc' = "export"
    /\ UNCHANGED <<inputVars, datesToProcess, idx, hasDataToSync, runErr,
                   handlerVars, procVars, verdicts, exportLog, syncLog,
                   cleanupCount, faults, scanVars, sigLog, rerunVars, cfgVars, expVars, argLog, queryVars, logVars>>

\* MkDateFail of a processDateLocally that goes on to the export
MkDateFailIgnored ==
    /\ ~ended /\ pc = "mkdate"
    /\ CurDir \notin tree
    /\ pc' = "export"
    /\ faults' = faults \cup {"mkdate"}
    /\ UNCHANGED <<inputVars, datesToProcess, idx, hasDataToSync, runErr,
                   tree, content, handlerVars, procVars, verdicts, exportLog,
                   syncLog, cleanupCount, scanVars, sigLog, rerunVars,
                   cfgVars, expVars, argLog, queryVars, logVars>>
\* processDateLocally, lines 615-617, and Run, lines 499-502
MkDateFail ==
    /\ ~ended /\ pc = "mkdate"
    /\ CurDir \notin tree
    /\ runErr' = "date"
    /\ pc' = AfterDateError
    /\ faults' = faults \cup {"mkdate"}
    /\ UNCHANGED <<inputVars, datesToProcess, idx, hasDataToSync, tree,
                   content, handlerVars, procVars, verdicts, exportLog,
                   syncLog, cleanupCount, scanVars, sigLog, rerunVars, cfgVars, expVars, argLog, queryVars, logVars>>

\* exportMessages, lines 644-667: the export tool is started
ExportStart ==
    /\ ~ended /\ pc = "export"
    /\ exportLog' = Append(exportLog, CurDate)
    /\ argLog' = Append(argLog, exportArgs(CurDate))
    /\ pc' = "exporting"
    /\ UNCHANGED <<inputVars, datesToProcess, idx, hasDataToSync, runErr,
                   tree, content, handlerVars, procVars, verdicts, syncLog,
                   cleanupCount, faults, scanVars, sigLog, rerunVars, cfgVars,
                   expVars, queryVars, logVars>>

\* exportMessages, lines 667-700: the tool succeeded and left its output
\* (it cannot succeed once its export path has been removed under it)
ExportOK ==
    /\ ~ended /\ pc = "exporting"
    /\ CurDir \in tree
    /\ \E out \in ExportOutputsFor(CurDate) :
           content' = [content EXCEPT ![CurDir] = WriteOutput(@, out)]
    /\ pc' = "classify"
    /\ UNCHANGED <<inputVars, datesToProcess, idx, hasDataToSync, runErr,
                   tree, handlerVars, procVars, verdicts, exportLog, syncLog,
                   cleanupCount, faults, scanVars, sigLog, rerunVars, cfgVars, expVars, argLog, queryVars, logVars>>

\* exportMessages returns an error; processDateLocally, lines 620-623,
\* and Run, lines 499-502
ExportFail ==
    /\ ~ended /\ pc = "exporting"
    /\ runErr' = "date"
    /\ pc' = AfterDateError
    /\ faults' = faults \cup {"export"}
    /\ UNCHANGED <<inputVars, datesToProcess, idx, hasDataToSync, tree,
                   content, handlerVars, procVars, verdicts, exportLog,
                   syncLog, cleanupCount, scanVars, sigLog, rerunVars, cfgVars, expVars, argLog, queryVars, logVars>>

\* ClassifyFail of a processDateLocally that takes a directory it cannot
\* list for an empty one
ClassifyFailAsEmpty ==
    /\ ~ended /\ pc = "classify"
    /\ verdicts' = Append(verdicts, TRUE)
    /\ pc' = "rmdate"
    /\ faults' = faults \cup {"readdir"}
    /\ UNCHANGED <<inputVars, datesToProcess, idx, hasDataToSync, runErr,
                   tree, content, handlerVars, procVars, exportLog, syncLog,
                   cleanupCount, scanVars, sigLog, rerunVars, cfgVars,
                   expVars, argLog, queryVars, logVars>>
\* processDateLocally, lines 625-629: os.ReadDir of the export directory
\* fails (always when the directory is gone)
ClassifyFail ==
    /\ ~ended /\ pc = "classify"
    /\ runErr' = "date"
    /\ pc' = AfterDateError
    /\ faults' = faults \cup {"readdir"}
    /\ UNCHANGED <<inputVars, datesToProcess, idx, hasDataToSync, tree,
                   content, handlerVars, procVars, verdicts, exportLog,
                   syncLog, cleanupCount, scanVars, sigLog, rerunVars, cfgVars, expVars, argLog, queryVars, logVars>>

\* processDateLocally, lines 625-642, and Run, line 503: the verdict; a
\* directory found non-empty is left in place
Classify ==
    /\ ~ended /\ pc = "classify"
    /\ CurDir \in tree
    /\ LET isEmpty == isDirectoryEmpty(ReadDir(content[CurDir]))
       IN  /\ verdicts' = Append(verdicts, isEmpty)
           /\ IF isEmpty
              THEN /\ pc' = "rmdate"
                   /\ UNCHANGED <<idx, hasDataToSync>>
              ELSE /\ pc' = AfterDate(idx)
                   /\ idx' = idx + 1
                   /\ hasDataToSync' = TRUE
    /\ UNCHANGED <<inputVars, datesToProcess, runErr, tree, content,
                   handlerVars, procVars, exportLog, syncLog, cleanupCount,
                   faults, scanVars, sigLog, rerunVars, cfgVars, expVars, argLog, queryVars, logVars>>

\* processDateLocally, lines 631-638, and Run, line 503: the directory
\* found empty is removed
RmDateOK ==
    /\ ~ended /\ pc = "rmdate"
    /\ tree' = RemoveAll(tree, CurDir)
    /\ content' = ContentOn(content, tree')
    /\ pc' = AfterDate(idx)
    /\ idx' = idx + 1
    /\ hasDataToSync' = TRUE
    /\ UNCHANGED <<inputVars, datesToProcess, runErr, handlerVars, procVars,
                   verdicts, exportLog, syncLog, cleanupCount, faults,
                   scanVars, sigLog, rerunVars, cfgVars, expVars, argLog, queryVars, logVars>>

\* RmDateFail of a processDateLocally that returns the error of os.RemoveAll
RmDateFailEscalated ==
    /\ ~ended /\ pc = "rmdate"
    /\ CurDir \in tree
    /\ runErr' = "date"
    /\ pc' = AfterDateError
    /\ faults' = faults \cup {"rmdate"}
    /\ UNCHANGED <<inputVars, datesToProcess, idx, hasDataToSync, tree,
                   content, handlerVars, procVars, verdicts, exportLog,
                   syncLog, cleanupCount, scanVars, sigLog, rerunVars,
                   cfgVars, expVars, argLog, queryVars, logVars>>
\* processDateLocally, lines 634-637: os.RemoveAll fails, which is only
\* logged
RmDateFail ==
    /\ ~ended /\ pc = "rmdate"
    /\ CurDir \in tree
    /\ pc' = AfterDate(idx)
    /\ idx' = idx + 1
    /\ hasDataToSync' = TRUE
    /\ faults' = faults \cup {"rmdate"}
    /\ UNCHANGED <<inputVars, datesToProcess, runErr, tree, content,
                   handlerVars, procVars, verdicts, exportLog, syncLog,
                   cleanupCount, scanVars, sigLog, rerunVars, cfgVars, expVars, argLog, queryVars, logVars>>

\* Run, lines 506-508: rsync is started if hasDataToSync
CheckSync ==
    /\ ~ended /\ pc = "checksync"
    /\ IF hasDataToSync
       THEN /\ syncLog' = Append(syncLog, DayDirs(tree))
            /\ pc' = "syncing"
       ELSE /\ pc' = "deferred"
            /\ UNCHANGED syncLog
    /\ UNCHANGED <<inputVars, datesToProcess, idx, hasDataToSync, runErr,
                   tree, content, handlerVars, procVars, verdicts, exportLog,
                   cleanupCount, faults, scanVars, sigLog, rerunVars, cfgVars, expVars, argLog, queryVars, logVars>>

\* batchSyncToRemote returns nil; Run, lines 514-515
SyncOK ==
    /\ ~ended /\ pc = "syncing"
    /\ pc' = "deferred"
    /\ UNCHANGED <<inputVars, datesToProcess, idx, hasDataToSync, runErr,
                   tree, content, handlerVars, procVars, verdicts, exportLog,
                   syncLog, cleanupCount, faults, scanVars, sigLog, rerunVars, cfgVars, expVars, argLog, queryVars, logVars>>

\* SyncFail of a Run that only logs the error of the transfer
SyncFailSwallowed ==
    /\ ~ended /\ pc = "syncing"
    /\ pc' = "deferred"
    /\ faults' = faults \cup {"sync"}
    /\ UNCHANGED <<inputVars, datesToProcess, idx, hasDataToSync, runErr,
                   tree, content, handlerVars, procVars, verdicts, exportLog,
                   syncLog, cleanupCount, scanVars, sigLog, rerunVars, cfgVars, expVars, argLog, queryVars, logVars>>
\* batchSyncToRemote returns an error; Run, lines 508-511
SyncFail ==
    /\ ~ended /\ pc = "syncing"
    /\ runErr' = "sync"
    /\ pc' = "deferred"
    /\ faults' = faults \cup {"sync"}
    /\ UNCHANGED <<inputVars, datesToProcess, idx, hasDataToSync, tree,
                   content, handlerVars, procVars, verdicts, exportLog,
                   syncLog, cleanupCount, scanVars, sigLog, rerunVars, cfgVars, expVars, argLog, queryVars, logVars>>

\* cleanup that empties the directory and keeps the directory itself
cleanupContents(t) == t \cap {RootDir}
\* the tree after cleanup(dir) when os.RemoveAll succeeds
cleanup(t) == RemoveAll(t, RootDir)

\* the deferred cleanupFunc of Run, when os.RemoveAll succeeds
DeferredCleanupOK ==
    /\ ~ended /\ pc = "deferred"
    /\ tree' = cleanup(tree)
    /\ content' = ContentOn(content, tree')
    /\ cleanupCount' = cleanupCount + 1
    /\ pc' = "exit"
    /\ UNCHANGED <<inputVars, datesToProcess, idx, hasDataToSync, runErr,
                   handlerVars, procVars, verdicts, exportLog, syncLog,
                   faults, scanVars, sigLog, rerunVars, cfgVars, expVars, argLog, queryVars, logVars>>

\* the deferred cleanupFunc of Run, when os.RemoveAll fails (only logged)
DeferredCleanupFail ==
    /\ ~ended /\ pc = "deferred"
    /\ RootDir \in tree
    /\ cleanupCount' = cleanupCount + 1
    /\ pc' = "exit"
    /\ faults' = faults \cup {"cleanup"}
    /\ UNCHANGED <<inputVars, datesToProcess, idx, hasDataToSync, runErr,
                   tree, content, handlerVars, procVars, verdicts, exportLog,
                   syncLog, scanVars, sigLog, rerunVars, cfgVars, expVars, argLog, queryVars, logVars>>

\* main, lines 45-50 of cmd main: os.Exit(1) on an error of Run, else return
MainExit ==
    /\ ~ended /\ pc = "exit"
    /\ ended' = TRUE
    /\ exitStatus' = IF runErr # "" THEN 1 ELSE 0
    /\ pc' = "done"
    /\ UNCHANGED <<inputVars, datesToProcess, idx, hasDataToSync, runErr,
                   tree, content, handlerVars, verdicts, exportLog, syncLog,
                   cleanupCount, faults, scanVars, sigLog, rerunVars, cfgVars, expVars, argLog, queryVars, logVars>>

-----------------------------------------------------------------------------
(* Run: the signal-handler goroutine *)

mainVars == <<pc, datesToProcess, idx, hasDataToSync, runErr>>
histVars == <<verdicts, exportLog, syncLog>>

\* the runtime delivers SIGINT or SIGTERM to sigChan (buffer of one; a
\* signal that finds the buffer full is dropped)
Signal ==
    /\ ~ended /\ notified
    /\ sigChan = 0
    /\ sigChan' = 1
    /\ sigLog' = sigLog \cup {pc}
    /\ UNCHANGED <<inputVars, mainVars, tree, content, notified, hpc,
                   procVars, histVars, cleanupCount, faults, scanVars,
                   rerunVars, cfgVars, expVars, argLog, queryVars, logVars>>

\* line 490: sig := <-sigChan
HandlerReceive ==
    /\ ~ended /\ hpc = "wait"
    /\ sigChan = 1
    /\ sigChan' = 0
    /\ hpc' = "cleanup"
    /\ UNCHANGED <<inputVars, mainVars, tree, content, notified, procVars,
                   histVars, cleanupCount, faults, scanVars, sigLog, rerunVars, cfgVars, expVars, argLog, queryVars, logVars>>

\* line 492: cleanupFunc(), os.RemoveAll succeeds
HandlerCleanupOK ==
    /\ ~ended /\ hpc = "cleanup"
    /\ tree' = cleanup(tree)
    /\ content' = ContentOn(content, tree')
    /\ cleanupCount' = cleanupCount + 1
    /\ hpc' = "exit"
    /\ UNCHANGED <<inputVars, mainVars, notified, sigChan, procVars,
                   histVars, faults, scanVars, sigLog, rerunVars, cfgVars, expVars, argLog, queryVars, logVars>>

\* line 492: cleanupFunc(), os.RemoveAll fails (only logged)
HandlerCleanupFail ==
    /\ ~ended /\ hpc = "cleanup"
    /\ RootDir \in tree
    /\ cleanupCount' = cleanupCount + 1
    /\ hpc' = "exit"
    /\ faults' = faults \cup {"cleanup"}
    /\ UNCHANGED <<inputVars, mainVars, tree, content, notified, sigChan,
                   procVars, histVars, scanVars, sigLog, rerunVars, cfgVars, expVars, argLog, queryVars, logVars>>

\* line 493: os.Exit(1)
HandlerExit ==
    /\ ~ended /\ hpc = "exit"
    /\ ended' = TRUE
    /\ exitStatus' = 1
    /\ hpc' = "done"
    /\ UNCHANGED <<inputVars, mainVars, tree, content, notified, sigChan,
                   histVars, cleanupCount, faults, scanVars, sigLog, rerunVars, cfgVars, expVars, argLog, queryVars, logVars>>

-----------------------------------------------------------------------------
(* config.Load.  The text fields of the file are strings, "" when the file *)
(* omits them; the two path fields are sequences of characters.            *)

\* days_to_check of a file that omits it
DefaultDaysToCheck == 7

\* os.UserHomeDir()
HomeDir == <<"/", "h">>

validLogLevels == <<"debug", "info", "warn", "error">>

validFormats == <<"txt", "html">>

validCopyMethods == <<"clone", "basic", "full", "disabled">>

contains(slice, item) == \E i \in 1..Len(slice) : slice[i] = item

\* filepath.Join of two elements, an empty one being ignored
JoinPath(dir, rest) ==
    IF dir = <<>> THEN rest
    ELSE IF rest = <<>> THEN dir
    ELSE dir \o <<"/">> \o rest

\* an error value: what it is about, the field and the value it names, and
\* the text Load wrapped it in
Error(kind, field, value) ==
    [kind |-> kind, field |-> field, value |-> value, wrap |-> ""]

NoError == Error("nil", "", "")

\* os.IsNotExist on the outcome of os.Stat
IsNotExist(outcome) == outcome = "ENOENT"

\* the defaults of Load with html as default export format
DefaultsHtml(c, env) ==
    [c EXCEPT
        !.logging_level = IF @ = "" THEN "info" ELSE @,
        !.local_export_path =
            IF @ = <<>>
            THEN JoinPath(IF env.homeOK THEN HomeDir ELSE <<>>, <<"L">>)
            ELSE @,
        !.export_format = IF @ = "" THEN "html" ELSE @,
        !.copy_method = IF @ = "" THEN "basic" ELSE @,
        !.days_to_check = IF @ = 0 THEN DefaultDaysToCheck ELSE @]

\* Load, lines 35-51: the defaults
Defaults(c, env) ==
    [c EXCEPT
        !.logging_level = IF @ = "" THEN "info" ELSE @,
        !.local_export_path =
            IF @ = <<>>
            THEN JoinPath(IF env.homeOK THEN HomeDir ELSE <<>>, <<"L">>)
            ELSE @,
        !.export_format = IF @ = "" THEN "txt" ELSE @,
        !.copy_method = IF @ = "" THEN "basic" ELSE @,
        !.days_to_check = IF @ = 0 THEN DefaultDaysToCheck ELSE @]

\* the required-field checks of Load with remote_host tested first
RequiredErrorHostFirst(c) ==
    IF c.remote_host = ""
    THEN Error("required", "remote_host", "")
    ELSE IF c.remote_user = ""
    THEN Error("required", "remote_user", "")
    ELSE IF c.ssh_private_key_path = <<>>
    THEN Error("required", "ssh_private_key_path", "")
    ELSE IF c.remote_archive_path = ""
    THEN Error("required", "remote_archive_path", "")
    ELSE NoError

\* Load, lines 53-65: the required fields
RequiredError(c) ==
    IF c.remote_user = ""
    THEN Error("required", "remote_user", "")
    ELSE IF c.ssh_private_key_path = <<>>
    THEN Error("required", "ssh_private_key_path", "")
    ELSE IF c.remote_host = ""
    THEN Error("required", "remote_host", "")
    ELSE IF c.remote_archive_path = ""
    THEN Error("required", "remote_archive_path", "")
    ELSE NoError

\* validate, lines 82-90: the path os.Stat is called on
ExpandedKeyPath(p) ==
    IF HasPrefix(p, <<"~", "/">>)
    THEN JoinPath(HomeDir, SubSeq(p, 3, Len(p)))
    ELSE p

\* Config.validate
validate(c, env) ==
    IF c.remote_user = ""
    THEN Error("required", "remote_user", "")
    ELSE IF c.ssh_private_key_path = <<>>
    THEN Error("required", "ssh_private_key_path", "")
    ELSE IF HasPrefix(c.ssh_private_key_path, <<"~", "/">>) /\ ~env.homeOK
    THEN Error("home", "", "")
    ELSE IF IsNotExist(env.stat[ExpandedKeyPath(c.ssh_private_key_path)])
    THEN Error("notexist", "ssh_private_key_path", c.ssh_private_key_path)
    ELSE IF c.remote_host = ""
    THEN Error("required", "remote_host", "")
    ELSE IF c.remote_archive_path = ""
    THEN Error("required", "remote_archive_path", "")
    ELSE IF ~contains(validLogLevels, c.logging_level)
    THEN Error("invalid", "logging_level", c.logging_level)
    ELSE IF ~contains(validFormats, c.export_format)
    THEN Error("invalid", "export_format", c.export_format)
    ELSE IF ~contains(validCopyMethods, c.copy_method)
    THEN Error("invalid", "copy_method", c.copy_method)
    ELSE NoError

\* the Config a nil pointer stands for
NilConfig ==
    [remote_user |-> "", ssh_private_key_path |-> <<>>, remote_host |-> "",
     logging_level |-> "", remote_archive_path |-> "",
     local_export_path |-> <<>>, export_format |-> "", copy_method |-> "",
     days_to_check |-> 0]

Failed(err) == [nil |-> TRUE, cfg |-> NilConfig, err |-> err]

\* Load that hands back the key path validate called os.Stat on
LoadExpanded(f, env) ==
    IF env.read = "noread"
    THEN Failed(Error("read", "", ""))
    ELSE IF env.read = "noparse"
    THEN Failed(Error("parse", "", ""))
    ELSE LET config == Defaults(f, env)
         IN  IF RequiredError(config).kind # "nil"
             THEN Failed(RequiredError(config))
             ELSE IF validate(config, env).kind # "nil"
             THEN Failed([validate(config, env)
                              EXCEPT !.wrap = "invalid configuration"])
             ELSE [nil |-> FALSE,
                   cfg |-> [config EXCEPT !.ssh_private_key_path =
                                ExpandedKeyPath(config.ssh_private_key_path)],
                   err |-> NoError]
\* Load on a file with the fields f
Load(f, env) ==
    IF env.read = "noread"
    THEN Failed(Error("read", "", ""))
    ELSE IF env.read = "noparse"
    THEN Failed(Error("parse", "", ""))
    ELSE LET config == Defaults(f, env)
         IN  IF RequiredError(config).kind # "nil"
             THEN Failed(RequiredError(config))
             ELSE IF validate(config, env).kind # "nil"
             THEN Failed([validate(config, env)
                              EXCEPT !.wrap = "invalid configuration"])
             ELSE [nil |-> FALSE, cfg |-> config, err |-> NoError]

\* main has not called Load
NotLoaded == [called |-> FALSE, res |-> Failed(NoError), core |-> FALSE]

\* main, lines 29-43: Load, and archiver.New only when Load returned no error
MainLoad ==
    /\ ~cfgOut.called
    /\ LET res == Load(cfgIn, cfgEnv)
       IN  cfgOut' = [called |-> TRUE, res |-> res,
                      core |-> res.err.kind = "nil"]
    /\ UNCHANGED <<inputVars, mainVars, tree, content, handlerVars, procVars,
                   histVars, cleanupCount, faults, scanVars, sigLog,
                   rerunVars, cfgIn, cfgEnv, expVars, argLog, queryVars, logVars>>

\* exportMessages once cmd.CombinedOutput has returned toolOut
ExportCall ==
    /\ ~exportErr.called
    /\ LET e == exportMessages(toolOut)
       IN  exportErr' = [called |-> TRUE, category |-> e.category,
                         text |-> e.text]
    /\ UNCHANGED <<inputVars, mainVars, tree, content, handlerVars, procVars,
                   histVars, cleanupCount, faults, scanVars, sigLog,
                   rerunVars, cfgVars, toolOut, argLog, queryVars, logVars>>
-----------------------------------------------------------------------------
(* The logger (internal/logger/logger.go).  A level string is a sequence   *)
(* of characters; a written line is kept as its severity tag.              *)

\* the LogLevel constants (iota)
DEBUG == 0
INFO == 1
WARN == 2
ERROR == 3

UpperChars == <<"A", "B", "C", "D", "E", "F", "G", "H", "I", "J", "K", "L", "M",
                "N", "O", "P", "Q", "R", "S", "T", "U", "V", "W", "X", "Y", "Z">>
LowerChars == <<"a", "b", "c", "d", "e", "f", "g", "h", "i", "j", "k", "l", "m",
                "n", "o", "p", "q", "r", "s", "t", "u", "v", "w", "x", "y", "z">>

\* strings.ToLower on the letters A-Z
ToLower(s) ==
    [i \in 1..Len(s) |->
        IF \E k \in 1..Len(UpperChars) : UpperChars[k] = s[i]
        THEN LowerChars[CHOOSE k \in 1..Len(UpperChars) : UpperChars[k] = s[i]]
        ELSE s[i]]

\* parseLogLevel whose third case is "warning" alone
parseLogLevelNoWarn(levelStr) ==
    LET l == ToLower(levelStr)
    IN  IF l = <<"d", "e", "b", "u", "g">> THEN DEBUG
        ELSE IF l = <<"i", "n", "f", "o">> THEN INFO
        ELSE IF l = <<"w", "a", "r", "n", "i", "n", "g">> THEN WARN
        ELSE IF l = <<"e", "r", "r", "o", "r">> THEN ERROR
        ELSE INFO
\* parseLogLevel: the switch on the lower-cased level string
parseLogLevel(levelStr) ==
    LET l == ToLower(levelStr)
    IN  IF l = <<"d", "e", "b", "u", "g">> THEN DEBUG
        ELSE IF l = <<"i", "n", "f", "o">> THEN INFO
        ELSE IF l = <<"w", "a", "r", "n">>
                \/ l = <<"w", "a", "r", "n", "i", "n", "g">> THEN WARN
        ELSE IF l = <<"e", "r", "r", "o", "r">> THEN ERROR
        ELSE INFO

\* no Logger has been created
NoLogger ==
    /\ logIn = <<>>
    /\ logger = [made |-> FALSE, level |-> INFO]
    /\ logOut = [stdout |-> <<>>, stderr |-> <<>>]
    /\ logCalls = <<>>

\* New(levelStr)
LoggerNew ==
    /\ ~logger.made
    /\ logger' = [made |-> TRUE, level |-> parseLogLevel(logIn)]
    /\ UNCHANGED <<inputVars, mainVars, tree, content, handlerVars, procVars,
                   histVars, cleanupCount, faults, scanVars, sigLog,
                   rerunVars, cfgVars, expVars, argLog, queryVars, logIn,
                   logOut, logCalls>>

\* what no logging call changes
logFrame ==
    <<inputVars, mainVars, tree, content, handlerVars, procVars, histVars,
      cleanupCount, faults, scanVars, sigLog, rerunVars, cfgVars, expVars,
      argLog, queryVars, logIn, logger>>

\* Logger.Debug: written to stdout if the level is at most DEBUG
LogDebug ==
    /\ logger.made /\ Len(logCalls) < MaxLogCalls
    /\ logCalls' = Append(logCalls, DEBUG)
    /\ logOut' = IF logger.level <= DEBUG
                  THEN [logOut EXCEPT !.stdout = Append(@, "[DEBUG]")]
                  ELSE logOut
    /\ UNCHANGED logFrame

\* Logger.Info: written to stdout if the level is at most INFO
LogInfo ==
    /\ logger.made /\ Len(logCalls) < MaxLogCalls
    /\ logCalls' = Append(logCalls, INFO)
    /\ logOut' = IF logger.level <= INFO
                  THEN [logOut EXCEPT !.stdout = Append(@, "[INFO]")]
                  ELSE logOut
    /\ UNCHANGED logFrame

\* Logger.Warn: written to stderr if the level is at most WARN
LogWarn ==
    /\ logger.made /\ Len(logCalls) < MaxLogCalls
    /\ logCalls' = Append(logCalls, WARN)
    /\ logOut' = IF logger.level <= WARN
                  THEN [logOut EXCEPT !.stderr = Append(@, "[WARN]")]
                  ELSE logOut
    /\ UNCHANGED logFrame

\* Logger.Error: written to stderr if the level is at most ERROR
LogError ==
    /\ logger.made /\ Len(logCalls) < MaxLogCalls
    /\ logCalls' = Append(logCalls, ERROR)
    /\ logOut' = IF logger.level <= ERROR
                  THEN [logOut EXCEPT !.stderr = Append(@, "[ERROR]")]
                  ELSE logOut
    /\ UNCHANGED logFrame

-----------------------------------------------------------------------------
(* Inputs *)

\* days on which the program is started: the window then crosses the end of
\* February of a leap year, of a common year, and the end of a year
Todays == {<<2024, 3, 2>>, <<2023, 3, 1>>, <<2024, 1, 2>>}

\* a line for a directory one level below the archive directory of t-1
DeepLine(t) == RemoteLine(AddDate(t, 0 - 1)) \o <<"/", "x">>

\* a line for the directory of t-1 under another root than RemoteArchivePath
ForeignLine(t) ==
    LET d == AddDate(t, 0 - 1)
    IN  <<"/", "c", "/">> \o Pad4(d[1]) \o <<"/">> \o Pad2(d[2])
                          \o <<"/">> \o Pad2(d[3])

\* lines the remote listing can print: the directories of the days around
\* the window, today's included, and a directory that is only two levels deep
CandidateLines(t, n) ==
    {RemoteLine(AddDate(t, 0 - i)) : i \in 0..(n + 1)}
        \cup {RemoteArchivePath \o <<"/">> \o Pad4(t[1]) \o <<"/">> \o Pad2(t[2]),
              DeepLine(t), ForeignLine(t)}

\* a per-date directory with a conversation in it, left under the fixed
\* path of localRootDir by an earlier process that ended without cleanup
StaleDir(t) == DatePath(AddDate(t, 0 - 1))

StaleTrees(t) == {{}, Prefixes(StaleDir(t))}

StaleContent(tr) == [q \in DayDirs(tr) |-> {Conversation}]

EntryNames == {"attachments", "orphaned.html", "conversation1.html", "notes.txt"}

\* the size limit the test of the classifier names for its large
\* orphaned.html (">10KB"), which is the limit of the earlier classifier
DocumentedThreshold == 10240

\* sizes on both sides of the limit, and one between the two limits
FileSizes == {24, OrphanedThreshold, OrphanedThreshold + 1,
              (OrphanedThreshold + DocumentedThreshold) \div 2}

\* the entries a directory can hold under one name
EntriesNamed(name) ==
    IF name \in {"attachments", "orphaned.html"}
    THEN {Entry(name, "file", sz, 0, ok) : sz \in FileSizes, ok \in BOOLEAN}
         \cup {Entry(name, "dir", 0, n, ok) : n \in 0..1, ok \in BOOLEAN}
         \cup {Entry(name, "symlink", 24, 0, TRUE)}
    ELSE {Entry(name, "file", 24, 0, TRUE), Entry(name, "dir", 0, 0, TRUE)}

\* the listings of at most n entries with pairwise different names, in
\* every enumeration order
AllEntries == UNION {EntriesNamed(nm) : nm \in EntryNames}

RECURSIVE Listings(_)
Listings(n) ==
    IF n = 0
    THEN {<<>>}
    ELSE LET shorter == Listings(n - 1)
             longest == {l \in shorter : Len(l) = n - 1}
         IN  shorter \cup
             {Append(q[1], q[2]) :
                  q \in {r \in longest \X AllEntries :
                             \A i \in 1..Len(r[1]) : r[1][i].name # r[2].name}}

IdleRun ==
    /\ pc = "start" /\ datesToProcess = <<>> /\ idx = 1
    /\ hasDataToSync = FALSE /\ runErr = ""
    /\ notified = FALSE /\ sigChan = 0 /\ hpc = "idle"
    /\ ended = FALSE /\ exitStatus = 0
    /\ verdicts = <<>> /\ exportLog = <<>> /\ syncLog = <<>>
    /\ cleanupCount = 0 /\ faults = {} /\ sigLog = {} /\ argLog = <<>>
    /\ remoteQueries = 0 /\ remoteArchives = {}

\* values of ssh_private_key_path: omitted, absolute, below the home
KeyPaths == {<<>>, <<"/", "k">>, <<"~", "/", "k">>}

\* what os.Stat can say about a path: a regular file, a directory, no such
\* file, or a parent that is not a directory
StatOutcomes == {"file", "dir", "ENOENT", "ENOTDIR"}

\* the configuration files: every field omitted, valid, or (where the
\* field is validated) invalid
ConfigFiles ==
    [remote_user : {"", "u"},
     ssh_private_key_path : KeyPaths,
     remote_host : {"", "h"},
     logging_level : {"", "debug", "INFO"},
     remote_archive_path : {"", "/b"},
     local_export_path : {<<>>, <<"/", "e">>},
     export_format : {"", "html", "pdf"},
     copy_method : {"", "clone", "fast"},
     days_to_check : {0, 3, 0 - 1}]

\* the outcomes of os.ReadFile and yaml.Unmarshal, of os.UserHomeDir, and of
\* os.Stat on the paths validate can ask about
ConfigEnvs ==
    [read : {"ok", "noread", "noparse"},
     homeOK : BOOLEAN,
     stat : [{ExpandedKeyPath(p) : p \in KeyPaths \ {<<>>}} -> StatOutcomes]]

\* the configuration is not under study: a valid file, loaded elsewhere
NoConfigLoad ==
    /\ cfgIn = [remote_user |-> "u", ssh_private_key_path |-> <<"/", "k">>,
                remote_host |-> "h", logging_level |-> "",
                remote_archive_path |-> "/b", local_export_path |-> <<>>,
                export_format |-> "", copy_method |-> "",
                days_to_check |-> 0]
    /\ cfgEnv = [read |-> "ok", homeOK |-> TRUE,
                 stat |-> [q \in {ExpandedKeyPath(p) : p \in KeyPaths \ {<<>>}}
                               |-> "file"]]
    /\ cfgOut = NotLoaded

\* the program is started once, the results of the export tool are free
SingleRun ==
    /\ run = 1 /\ plan = <<>> /\ firstDates = <<>> /\ firstVerdicts = <<>>

\* a whole run of the program
Init ==
    /\ today \in Todays
    /\ daysToCheck \in 0..MaxRunDays
    /\ probeOK \in BOOLEAN
    /\ remoteLines \in SUBSET {RemoteLine(AddDate(today, 0 - i)) : i \in 1..2}
    /\ probeOK = FALSE => remoteLines = {}
    /\ tree \in StaleTrees(today)
    /\ content = StaleContent(tree)
    /\ scanDir = <<>> /\ scanResult = "none"
    /\ IdleRun
    /\ NoLogger
    /\ NoExportCall
    /\ SingleRun
    /\ NoConfigLoad

Next ==
    \/ FindMissing
    \/ MkRootOK
    \/ MkRootFail
    \/ SetupSignals
    \/ MkDateOK
    \/ MkDateFail
    \/ ExportStart
    \/ ExportOK
    \/ ExportFail
    \/ ClassifyFail
    \/ Classify
    \/ RmDateOK
    \/ RmDateFail
    \/ CheckSync
    \/ SyncOK
    \/ SyncFail
    \/ DeferredCleanupOK
    \/ DeferredCleanupFail
    \/ MainExit
    \/ Signal
    \/ HandlerReceive
    \/ HandlerCleanupOK
    \/ HandlerCleanupFail
    \/ HandlerExit

Spec == Init /\ [][Next]_vars

\* findMissingArchives on its own, over every window and remote listing
InitGap ==
    /\ today \in Todays
    /\ daysToCheck \in 0..MaxDays
    /\ probeOK \in BOOLEAN
    /\ remoteLines \in SUBSET CandidateLines(today, MaxDays)
    /\ tree = {}
    /\ content = StaleContent(tree)
    /\ scanDir = <<>> /\ scanResult = "none"
    /\ IdleRun
    /\ NoLogger
    /\ NoExportCall
    /\ SingleRun
    /\ NoConfigLoad

NextGap == FindMissing

SpecGap == InitGap /\ [][NextGap]_vars

\* isDirectoryEmpty(dir) once os.ReadDir(dir) has returned scanDir
ClassifyDir ==
    /\ scanResult = "none"
    /\ scanResult' = IF isDirectoryEmpty(scanDir) THEN "true" ELSE "false"
    /\ UNCHANGED <<inputVars, mainVars, tree, content, handlerVars, procVars,
                   histVars, cleanupCount, faults, scanDir, sigLog, rerunVars, cfgVars, expVars, argLog, queryVars, logVars>>

\* isDirectoryEmpty on its own, over every listing
InitClassify ==
    /\ today = <<2024, 3, 2>>
    /\ daysToCheck = 0
    /\ probeOK = TRUE
    /\ remoteLines = {}
    /\ tree = {}
    /\ content = StaleContent(tree)
    /\ scanDir \in Listings(MaxEntries)
    /\ scanResult = "none"
    /\ IdleRun
    /\ NoLogger
    /\ NoExportCall
    /\ SingleRun
    /\ NoConfigLoad

NextClassify == ClassifyDir

SpecClassify == InitClassify /\ [][NextClassify]_vars

\* main is entered again once the process has ended: a new process with the
\* same configuration, remote listing and messages, on the local tree the
\* first one left
Restart ==
    /\ ended /\ run = 1
    /\ run' = 2
    /\ firstDates' = datesToProcess
    /\ firstVerdicts' = verdicts
    /\ pc' = "start" /\ datesToProcess' = <<>> /\ idx' = 1
    /\ hasDataToSync' = FALSE /\ runErr' = ""
    /\ notified' = FALSE /\ sigChan' = 0 /\ hpc' = "idle"
    /\ ended' = FALSE /\ exitStatus' = 0
    /\ verdicts' = <<>> /\ exportLog' = <<>> /\ syncLog' = <<>>
    /\ cleanupCount' = 0 /\ faults' = {} /\ sigLog' = {} /\ argLog' = <<>>
    /\ remoteQueries' = 0 /\ remoteArchives' = {}
    /\ UNCHANGED <<inputVars, tree, content, scanVars, plan, cfgVars,
                   expVars, logVars>>

\* the dates a window of MaxRunDays days can hold
WindowDates(t) == {AddDate(t, 0 - i) : i \in 1..MaxRunDays}

\* two consecutive starts of the program, the first on a clean local tree
InitTwice ==
    /\ today \in Todays
    /\ daysToCheck \in 0..MaxRunDays
    /\ probeOK \in BOOLEAN
    /\ remoteLines \in SUBSET {RemoteLine(AddDate(today, 0 - i)) : i \in 1..2}
    /\ probeOK = FALSE => remoteLines = {}
    /\ tree = {}
    /\ content = StaleContent(tree)
    /\ scanDir = <<>> /\ scanResult = "none"
    /\ IdleRun
    /\ NoLogger
    /\ NoExportCall
    /\ run = 1 /\ firstDates = <<>> /\ firstVerdicts = <<>>
    /\ plan \in [WindowDates(today) -> ExportOutputs]
    /\ NoConfigLoad

NextTwice == Next \/ Restart

SpecTwice == InitTwice /\ [][NextTwice]_vars

\* config.Load on its own, over every file and environment
InitConfig ==
    /\ today = <<2024, 3, 2>>
    /\ daysToCheck = 0
    /\ probeOK = TRUE
    /\ remoteLines = {}
    /\ tree = {}
    /\ content = StaleContent(tree)
    /\ scanDir = <<>> /\ scanResult = "none"
    /\ IdleRun
    /\ NoLogger
    /\ NoExportCall
    /\ SingleRun
    /\ cfgIn \in ConfigFiles
    /\ cfgEnv \in ConfigEnvs
    /\ cfgOut = NotLoaded

NextConfig == MainLoad

SpecConfig == InitConfig /\ [][NextConfig]_vars

\* the lines the tool can print
OutputLines ==
    PermissionMarks \cup {ConfigurationMark, "", "Export completed"}

\* the outputs of at most n lines
RECURSIVE Outputs(_)
Outputs(n) ==
    IF n = 0
    THEN {<<>>}
    ELSE Outputs(n - 1)
             \cup {Append(o, l) : o \in {p \in Outputs(n - 1) : Len(p) = n - 1},
                                  l \in OutputLines}

\* exportMessages on its own, over every exit status and output
InitExport ==
    /\ today = <<2024, 3, 2>>
    /\ daysToCheck = 0
    /\ probeOK = TRUE
    /\ remoteLines = {}
    /\ tree = {}
    /\ content = StaleContent(tree)
    /\ scanDir = <<>> /\ scanResult = "none"
    /\ IdleRun
    /\ NoLogger
    /\ SingleRun
    /\ NoConfigLoad
    /\ toolOut \in [exit : {0, 1}, output : Outputs(MaxOutputLines)]
    /\ exportErr = NotExported

NextExport == ExportCall

SpecExport == InitExport /\ [][NextExport]_vars

\* the level strings handed to New: the four names the configuration
\* accepts, the alias, other letter cases, and strings no case matches
LevelStrings ==
    {<<"d", "e", "b", "u", "g">>, <<"i", "n", "f", "o">>,
     <<"w", "a", "r", "n">>, <<"e", "r", "r", "o", "r">>,
     <<"w", "a", "r", "n", "i", "n", "g">>, <<"D", "E", "B", "U", "G">>,
     <<"W", "a", "r", "n">>, <<>>, <<"t", "r", "a", "c", "e">>,
     <<"e", "r", "r">>}

\* the logger on its own, over every level string and sequence of calls
InitLogger ==
    /\ today = <<2024, 3, 2>>
    /\ daysToCheck = 0
    /\ probeOK = TRUE
    /\ remoteLines = {}
    /\ tree = {}
    /\ content = StaleContent(tree)
    /\ scanDir = <<>> /\ scanResult = "none"
    /\ IdleRun
    /\ SingleRun
    /\ NoConfigLoad
    /\ NoExportCall
    /\ logIn \in LevelStrings
    /\ logger = [made |-> FALSE, level |-> INFO]
    /\ logOut = [stdout |-> <<>>, stderr |-> <<>>]
    /\ logCalls = <<>>

NextLogger == LoggerNew \/ LogDebug \/ LogInfo \/ LogWarn \/ LogError

SpecLogger == InitLogger /\ [][NextLogger]_vars

-----------------------------------------------------------------------------
(* Properties of Run *)

\* the per-date directories of the gap dates classified non-empty so far
RetainedDirs ==
    {DatePath(datesToProcess[i]) : i \in {j \in 1..Len(verdicts) : ~verdicts[j]}}

\* C1: the batch transfer is started only if at least one date of this run
\* was classified non-empty and retained; when every processed date was
\* classified empty the run goes to cleanup without starting the transfer.
C1_SyncOnlyIfRetained ==
    syncLog # <<>> => \E i \in 1..Len(verdicts) : ~verdicts[i]

\* C2: at the moment the batch transfer is started, the per-date
\* directories present under LocalBatchRoot are exactly the directories of
\* the gap dates classified non-empty.
C2_SyncDirsAreRetained ==
    \A k \in 1..Len(syncLog) : syncLog[k] = RetainedDirs

\* C3: whenever the process ends after LocalBatchRoot was created, and no
\* removal of LocalBatchRoot failed, LocalBatchRoot does not exist.
C3_RootGoneAtExit ==
    (ended /\ notified /\ "cleanup" \notin faults) => RootDir \notin tree

\* C4: in every run in which LocalBatchRoot is created, cleanup of
\* LocalBatchRoot is executed exactly once: never twice, and once by the
\* time the process ends.
C4_CleanupExactlyOnce ==
    /\ cleanupCount <= 1
    /\ (ended /\ notified) => cleanupCount = 1

\* the failures other than the probe's that make Run return an error
FatalFaults == {"mkroot", "mkdate", "export", "readdir", "sync"}

\* C5: when the remote listing query fails, findMissingArchives returns no
\* error and exactly daysToCheck dates, today-1 through today-daysToCheck in
\* that order; Run then returns an error only if something else failed.
C5_FallbackFullWindow ==
    (pc # "start" /\ ~probeOK) =>
        /\ runErr # "find"
        /\ Len(datesToProcess) = daysToCheck
        /\ \A i \in 1..Len(datesToProcess) :
               DayNumber(datesToProcess[i]) = DayNumber(today) - i
        /\ runErr # "" => faults \cap FatalFaults # {}

\* C5 witness: a run whose probe failed processed the two days of its
\* window and ended with status 0
C5_Witness ==
    /\ ~probeOK /\ daysToCheck = 2 /\ Len(datesToProcess) = 2
    /\ Len(exportLog) = 2 /\ ended /\ pc = "done" /\ exitStatus = 0

\* C8: if the export of a date of the gap list fails, Run returns an
\* error, no export is started for a later date, the batch transfer is not
\* started, and cleanup of LocalBatchRoot has run when Run returns.
C8_ExportFailureAborts ==
    "export" \in faults =>
        /\ pc \in {"deferred", "exit", "done"}
        /\ runErr = "date"
        /\ Len(exportLog) = idx
        /\ exportLog[idx] = datesToProcess[idx]
        /\ syncLog = <<>>
        /\ (pc \in {"exit", "done"} \/ ended) => cleanupCount >= 1
        /\ pc = "done" => exitStatus = 1

\* C8 witness: the export of the first of two dates failed and Run has
\* returned
C8_Witness ==
    /\ "export" \in faults /\ idx = 1 /\ Len(datesToProcess) = 2
    /\ pc = "done" /\ ended

-----------------------------------------------------------------------------
(* Properties of findMissingArchives *)

\* the archives map of this run's probe
RemoteIndex == getRemoteArchiveStructure(probeOK, remoteLines).archives

\* the dates findMissingArchives returned, as a set
ReturnedDates == {datesToProcess[k] : k \in 1..Len(datesToProcess)}

\* C6: when the remote listing query succeeds, findMissingArchives returns
\* exactly the dates today-i, 1 <= i <= daysToCheck, whose YYYY-MM-DD key is
\* not in the remote index.
C6_ExactlyTheMissing ==
    (pc # "start" /\ probeOK) =>
        /\ \A i \in 1..daysToCheck :
               LET d == CivilFromDay(DayNumber(today) - i)
               IN  (d \in ReturnedDates) <=> (FormatISO(d) \notin RemoteIndex)
        /\ \A d \in ReturnedDates :
               \E i \in 1..daysToCheck : DayNumber(d) = DayNumber(today) - i

\* C6 witness: of a window of three days, the first and the last are in the
\* index and the second is returned
C6_Witness ==
    /\ pc # "start" /\ probeOK /\ daysToCheck = 3
    /\ today = <<2024, 3, 2>>
    /\ FormatISO(<<2024, 3, 1>>) \in RemoteIndex
    /\ FormatISO(<<2024, 2, 28>>) \in RemoteIndex
    /\ datesToProcess = <<(<<2024, 2, 29>>)>>

\* C7: the output of findMissingArchives is ordered strictly
\* most-recent-first without duplicates, holds only dates from today-1 down
\* to today-daysToCheck and never today, and has exactly daysToCheck
\* elements when the remote index is empty.
C7_OrderedWindow ==
    pc # "start" =>
        /\ \A k \in 1..(Len(datesToProcess) - 1) :
               DayNumber(datesToProcess[k]) > DayNumber(datesToProcess[k + 1])
        /\ \A k \in 1..Len(datesToProcess) :
               /\ DayNumber(datesToProcess[k]) <= DayNumber(today) - 1
               /\ DayNumber(datesToProcess[k]) >= DayNumber(today) - daysToCheck
               /\ datesToProcess[k] # today
        /\ (probeOK /\ RemoteIndex = {}) => Len(datesToProcess) = daysToCheck

\* C7 witness: a window of three days across the end of the year, with an
\* index that holds nothing
C7_Witness ==
    /\ pc # "start" /\ probeOK /\ RemoteIndex = {} /\ remoteLines # {}
    /\ today = <<2024, 1, 2>>
    /\ datesToProcess = <<(<<2024, 1, 1>>), (<<2023, 12, 31>>), (<<2023, 12, 30>>)>>

-----------------------------------------------------------------------------
(* Properties of isDirectoryEmpty *)

\* an entry that is one of the two by-products of an export without
\* messages, as the claim words it; "small" is a size up to the limit
IsByProduct(e) ==
    \/ e.name = "attachments" /\ e.kind = "dir" /\ e.nsub = 0
    \/ e.name = "orphaned.html" /\ e.kind = "file" /\ e.size <= OrphanedThreshold

\* the same for the classifier: attachments is a directory that could be
\* listed and has no entries, orphaned.html is anything but a directory
\* whose Info() succeeded with a size up to the limit
IsReadByProduct(e) ==
    \/ e.name = "attachments" /\ e.kind = "dir" /\ e.ok /\ e.nsub = 0
    \/ e.name = "orphaned.html" /\ e.kind # "dir" /\ e.ok
           /\ e.size <= OrphanedThreshold

\* C9 as stated: isDirectoryEmpty returns true exactly when the directory
\* has no entries or every entry is an attachments directory with no
\* entries or a plain file orphaned.html of small size.
C9_EmptyIffByProducts ==
    scanResult # "none" =>
        (scanResult = "true" <=>
             \A i \in 1..Len(scanDir) : IsByProduct(scanDir[i]))

\* C9 amended: isDirectoryEmpty returns true exactly when the directory has
\* no entries or every entry is an attachments directory that could be
\* listed and has no entries, or an orphaned.html that is not a directory
\* and whose Info() succeeded with a size of at most 1024 bytes.
C9_EmptyIffReadByProducts ==
    scanResult # "none" =>
        (scanResult = "true" <=>
             \A i \in 1..Len(scanDir) : IsReadByProduct(scanDir[i]))

\* C9 witness: an attachments directory without entries that could not be
\* listed was classified non-empty
C9_Witness ==
    /\ scanResult = "false" /\ Len(scanDir) = 1
    /\ scanDir[1] = Entry("attachments", "dir", 0, 0, FALSE)

\* C10: isDirectoryEmpty never returns true for a directory with an entry
\* whose name is neither attachments nor orphaned.html, wherever the entry
\* falls in the enumeration order.
C10_UnknownEntryNeverEmpty ==
    (\E i \in 1..Len(scanDir) :
         scanDir[i].name \notin {"attachments", "orphaned.html"})
        => scanResult # "true"

\* C10 witness: the unknown entry came last, after both by-products, and
\* the directory was classified non-empty
C10_Witness ==
    /\ scanResult = "false" /\ Len(scanDir) = 3
    /\ scanDir[1] = EmptyAttachments /\ scanDir[2] = SmallOrphaned
    /\ scanDir[3].name = "notes.txt"

\* C11: for a directory whose only entry is a plain file orphaned.html of
\* size s, isDirectoryEmpty returns true exactly when s is strictly below
\* the threshold, s equal to the threshold included, and that threshold is
\* the one limit the classifier and its test of a large orphaned.html share.
C11_StrictSharedThreshold ==
    (/\ scanResult # "none" /\ Len(scanDir) = 1
     /\ scanDir[1].name = "orphaned.html" /\ scanDir[1].kind = "file"
     /\ scanDir[1].ok)
        => /\ scanResult = "true" <=> scanDir[1].size < OrphanedThreshold
           /\ scanResult = "true" <=> scanDir[1].size < DocumentedThreshold

-----------------------------------------------------------------------------
(* Properties of processDateLocally *)

\* the positions of Run inside processDateLocally
DateSteps == {"mkdate", "export", "exporting", "classify", "rmdate"}

\* a step in which processDateLocally leaves the per-date directories of the
\* other dates, and what they hold, as they are
OtherDatesUnchanged ==
    \A d \in DayDirs(tree \cup tree') \ {CurDir} :
        d \in tree /\ d \in tree' /\ content'[d] = content[d]

\* C12 as stated: when processDateLocally returns nil for a date classified
\* empty its directory no longer exists; when it returns nil for a date
\* classified non-empty the directory and its contents are as the export
\* left them; the directories of other dates are unchanged throughout.
C12_EmptyGoneNonEmptyKept ==
    [][/\ (pc \in DateSteps /\ pc' # pc) => OtherDatesUnchanged
       /\ (pc = "rmdate" /\ idx' = idx + 1) => CurDir \notin tree'
       /\ (pc = "classify" /\ idx' = idx + 1)
              => tree' = tree /\ content' = content]_vars

\* C12: when processDateLocally returns nil for a date classified empty,
\* its directory no longer exists unless os.RemoveAll failed, which is only
\* logged and leaves the directory and its contents in place; when it
\* returns nil for a date classified non-empty the directory and its
\* contents are as the export left them; the directories of other dates are
\* unchanged throughout.
C12_EmptyGoneUnlessRemovalFailed ==
    [][/\ (pc \in DateSteps /\ pc' # pc) => OtherDatesUnchanged
       /\ (pc = "rmdate" /\ idx' = idx + 1)
              => \/ CurDir \notin tree'
                 \/ /\ "rmdate" \in faults'
                    /\ tree' = tree /\ content' = content
       /\ (pc = "classify" /\ idx' = idx + 1)
              => tree' = tree /\ content' = content]_vars

\* an empty date was removed while the directory of the date before it,
\* classified non-empty, is still there
C12_Witness ==
    /\ verdicts = <<FALSE, TRUE>> /\ idx = 3 /\ cleanupCount = 0
    /\ "rmdate" \notin faults
    /\ DatePath(datesToProcess[1]) \in tree
    /\ content[DatePath(datesToProcess[1])] # {}
    /\ DatePath(datesToProcess[2]) \notin tree

\* the step in which processDateLocally returns, with nil or with an error
ProcessDateReturns ==
    \/ idx' = idx + 1
    \/ pc \in DateSteps /\ pc' = AfterDateError

\* C13: after processDateLocally(date, root) returns, with an error or
\* without, the directory root/YYYY/MM/DD of the date exists.
C13_DateDirExistsOnReturn ==
    [][ProcessDateReturns => CurDir \in tree']_vars

-----------------------------------------------------------------------------
(* Properties of the batch transfer *)

\* C14: in every run the batch transfer is started at most once, and only
\* after processDateLocally has returned without error for every date of
\* the gap list.
C14_SyncOnceAfterAllDates ==
    /\ Len(syncLog) <= 1
    /\ syncLog # <<>> =>
           /\ idx = Len(datesToProcess) + 1
           /\ Len(verdicts) = Len(datesToProcess)
           /\ runErr # "date"
           /\ faults \cap {"mkdate", "export", "readdir"} = {}

\* the transfer is running after both dates of a two-day gap list returned
C14_Witness ==
    /\ pc = "syncing" /\ Len(syncLog) = 1
    /\ Len(datesToProcess) = 2 /\ Len(verdicts) = 2

\* C15: after the batch transfer finished, with either outcome, cleanup of
\* LocalBatchRoot runs before Run returns; when the transfer failed Run
\* returns an error (and main exits with status 1), and until a cleanup
\* runs the per-date directories are the ones the transfer was started on.
C15_CleanupAfterSync ==
    /\ [](/\ (syncLog # <<>> /\ pc \in {"exit", "done"}) => cleanupCount >= 1
          /\ ("sync" \in faults /\ pc \in {"deferred", "exit", "done"})
                 => runErr = "sync"
          /\ ("sync" \in faults /\ pc = "done") => exitStatus = 1
          /\ ("sync" \in faults /\ cleanupCount = 0)
                 => DayDirs(tree) = syncLog[1])
    /\ [][(pc = "deferred" /\ pc' # pc)
              => pc' = "exit" /\ cleanupCount' = cleanupCount + 1]_vars

\* Run has returned the error of a failed transfer after its one cleanup,
\* with no signal involved
C15_Witness ==
    /\ "sync" \in faults /\ pc = "exit" /\ runErr = "sync"
    /\ cleanupCount = 1 /\ hpc = "wait" /\ sigChan = 0
    /\ syncLog[1] # {} /\ RootDir \notin tree

-----------------------------------------------------------------------------
(* Properties of the states of a run *)

\* findMissingArchives returned no date and no error
NothingToDo == pc # "start" /\ runErr = "" /\ Len(datesToProcess) = 0

\* C16 as stated: a run with an empty gap list also goes through the date
\* loop and the removal of LocalBatchRoot, so LocalBatchRoot does not exist
\* when a run with nothing to do ends.
C16_NothingToDoCleansUp ==
    (NothingToDo /\ pc = "done") => cleanupCount >= 1 /\ RootDir \notin tree

\* C16: a run with a non-empty gap list that created LocalBatchRoot reaches
\* the end of Run only through the date loop and the cleanup; a run with an
\* empty gap list returns right after the probe: it neither creates
\* LocalBatchRoot nor installs the signal handler, starts no export and no
\* cleanup, leaves the local tree as it found it and ends with status 0.
C16_NothingToDoReturnsEarly ==
    /\ [](/\ NothingToDo =>
                 /\ pc \in {"exit", "done"} /\ ~notified
                 /\ cleanupCount = 0 /\ exportLog = <<>> /\ syncLog = <<>>
                 /\ ended => exitStatus = 0
          /\ (pc \in {"exit", "done"} /\ Len(datesToProcess) > 0
                  /\ runErr # "mkroot")
                 => notified /\ cleanupCount >= 1)
    /\ [][NothingToDo => tree' = tree /\ content' = content]_vars

\* a run over a window with nothing missing has ended, and the
\* LocalBatchRoot an earlier process left behind is still there
C16_Witness ==
    /\ pc = "done" /\ NothingToDo /\ probeOK /\ daysToCheck > 0
    /\ exitStatus = 0 /\ RootDir \in tree /\ cleanupCount = 0

\* the handler goroutine has taken a signal from sigChan
SignalHandled == hpc \in {"cleanup", "exit", "done"}

\* C17: the exit status is zero when Run returned nil (every date
\* processed and the transfer, if any, succeeded, or nothing to do) and no
\* signal was handled; it is non-zero after a fatal error of Run and after
\* the signal handler ran.
C17_ExitStatus ==
    ended => /\ (runErr = "" /\ ~SignalHandled) => exitStatus = 0
             /\ (runErr # "" \/ SignalHandled) => exitStatus # 0

\* C18: the dates are processed one at a time in the order
\* findMissingArchives returned them: the exports started so far are the
\* first dates of the list in its order, each started once; an export is
\* started only when every earlier date has its verdict and no removal is
\* pending, and at most one started export has not finished.
C18_SequentialInOrder ==
    /\ [](/\ Len(exportLog) <= Len(datesToProcess)
          /\ \A i \in 1..Len(exportLog) : exportLog[i] = datesToProcess[i]
          /\ \A i, j \in 1..Len(exportLog) :
                 i # j => exportLog[i] # exportLog[j]
          /\ Len(exportLog) \in {Len(verdicts), Len(verdicts) + 1}
          /\ pc = "exporting"
                 => Len(exportLog) = idx /\ Len(verdicts) = idx - 1
          /\ Len(exportLog) = Len(verdicts) + 1
                 => \/ pc \in {"exporting", "classify"}
                    \/ faults \cap {"export", "readdir"} # {})
    /\ [][exportLog' # exportLog
              => /\ pc = "export" /\ pc' = "exporting"
                 /\ Len(verdicts) = Len(exportLog)
                 /\ exportLog' = Append(exportLog, datesToProcess[idx])]_vars

\* the export of the second date is running after the first date got its
\* verdict
C18_Witness ==
    /\ pc = "exporting" /\ idx = 2 /\ Len(exportLog) = 2
    /\ Len(verdicts) = 1 /\ exportLog[1] # exportLog[2]

-----------------------------------------------------------------------------
(* Properties of the remote probe *)

\* the dates whose archive directory is among the lines of the listing
ListedDates ==
    {d \in {AddDate(today, 0 - i) : i \in 0..(MaxDays + 1)} :
         RemoteLine(d) \in remoteLines}

\* C25: the index holds the key YYYY-MM-DD of every line that is
\* RemoteArchivePath/YYYY/MM/DD and nothing else: lines with two or with
\* four components after the root, and lines under another root, add no key.
C25_ThreeComponentLines ==
    probeOK => RemoteIndex = {FormatISO(d) : d \in ListedDates}

\* a listing with a line of each kind gave an index with the one key of its
\* one three-component line
C25_Witness ==
    /\ pc # "start" /\ probeOK /\ today = <<2024, 3, 2>>
    /\ remoteLines = {RemoteLine(<<2024, 3, 1>>), DeepLine(today),
                      ForeignLine(today),
                      RemoteArchivePath \o <<"/", "2", "0", "2", "4", "/", "0", "3">>}
    /\ RemoteIndex = {FormatISO(<<2024, 3, 1>>)}
    /\ datesToProcess # <<>> /\ datesToProcess[1] # <<2024, 3, 1>>
\* C20: when the remote listing command succeeds with no output lines,
\* getRemoteArchiveStructure returns an empty index and no error, and
\* findMissingArchives then returns every date of the window; the probe
\* returns an error exactly when the remote command itself fails.
C20_EmptyListingIsValid ==
    LET probe == getRemoteArchiveStructure(probeOK, remoteLines)
    IN  /\ probe.err <=> ~probeOK
        /\ (probeOK /\ remoteLines = {}) => probe.archives = {}
        /\ (pc # "start" /\ probeOK /\ remoteLines = {}) =>
               /\ runErr = ""
               /\ Len(datesToProcess) = daysToCheck
               /\ \A i \in 1..daysToCheck :
                      datesToProcess[i] = AddDate(today, 0 - i)

\* the listing succeeded without a line and the three days of the window
\* were returned
C20_Witness ==
    /\ pc # "start" /\ probeOK /\ remoteLines = {} /\ daysToCheck = 3
    /\ today = <<2023, 3, 1>>
    /\ datesToProcess = <<(<<2023, 2, 28>>), (<<2023, 2, 27>>), (<<2023, 2, 26>>)>>

\* the positions of Run in ProcessingDates and in Syncing
SignalStages == DateSteps \cup {"checksync", "syncing"}

\* C19: when a termination signal was delivered while the run was in
\* ProcessingDates or Syncing, the process ends with a non-zero status, and
\* LocalBatchRoot has been removed before it ends.
C19_SignalEndsNonZero ==
    (ended /\ sigLog \cap SignalStages # {})
        => exitStatus # 0 /\ cleanupCount >= 1

-----------------------------------------------------------------------------
(* Properties of consecutive runs *)

-----------------------------------------------------------------------------
(* Properties of config.Load *)

RequiredOrder ==
    <<"remote_user", "ssh_private_key_path", "remote_host",
      "remote_archive_path">>

FieldEmpty(f, name) ==
    IF name = "ssh_private_key_path" THEN f[name] = <<>> ELSE f[name] = ""

\* the positions in RequiredOrder of the required fields f lacks
Missing(f) == {i \in 1..Len(RequiredOrder) : FieldEmpty(f, RequiredOrder[i])}

FirstMissing(f) ==
    RequiredOrder[CHOOSE i \in Missing(f) : \A j \in Missing(f) : i <= j]

\* C22: when a required field (remote_user, ssh_private_key_path,
\* remote_host, remote_archive_path) is missing or empty, Load returns an
\* error and no configuration, and for a file that could be read the error
\* is the required-field error naming the first missing field in that
\* order; main constructs the core only from a configuration in which all
\* four fields are non-empty.
C22_RequiredFields ==
    cfgOut.called =>
        /\ Missing(cfgIn) # {} =>
               /\ cfgOut.res.nil /\ cfgOut.res.err.kind # "nil"
               /\ ~cfgOut.core
               /\ cfgEnv.read = "ok" =>
                      /\ cfgOut.res.err.kind = "required"
                      /\ cfgOut.res.err.field = FirstMissing(cfgIn)
        /\ cfgOut.core => ~cfgOut.res.nil /\ Missing(cfgOut.res.cfg) = {}

\* a file without key path and host was refused for its key path
C22_Witness ==
    /\ cfgOut.called /\ cfgEnv.read = "ok" /\ Missing(cfgIn) = {2, 3}
    /\ cfgOut.res.nil /\ cfgOut.res.err.field = "ssh_private_key_path"

\* C23: a configuration Load returns has logging_level info, export_format
\* txt, copy_method basic and days_to_check 7 where the file omits the
\* field, and the value of the file in every field the file gives.
C23_Defaults ==
    (cfgOut.called /\ ~cfgOut.res.nil) =>
        LET c == cfgOut.res.cfg
        IN  /\ c.logging_level = IF cfgIn.logging_level = "" THEN "info"
                                 ELSE cfgIn.logging_level
            /\ c.export_format = IF cfgIn.export_format = "" THEN "txt"
                                 ELSE cfgIn.export_format
            /\ c.copy_method = IF cfgIn.copy_method = "" THEN "basic"
                               ELSE cfgIn.copy_method
            /\ c.days_to_check = IF cfgIn.days_to_check = 0 THEN 7
                                 ELSE cfgIn.days_to_check
            /\ c.remote_user = cfgIn.remote_user
            /\ c.ssh_private_key_path = cfgIn.ssh_private_key_path
            /\ c.remote_host = cfgIn.remote_host
            /\ c.remote_archive_path = cfgIn.remote_archive_path
            /\ cfgIn.local_export_path # <<>>
                   => c.local_export_path = cfgIn.local_export_path

\* a file with the required fields only was loaded with the four defaults
C23_Witness ==
    /\ cfgOut.called /\ ~cfgOut.res.nil
    /\ cfgIn.logging_level = "" /\ cfgIn.export_format = ""
    /\ cfgIn.copy_method = "" /\ cfgIn.days_to_check = 0
    /\ cfgOut.res.cfg.export_format = "txt"
    /\ cfgOut.res.cfg.days_to_check = DefaultDaysToCheck

\* the file os.Stat is asked about is a regular file
KeyFileExists(c) ==
    c.ssh_private_key_path # <<>>
        /\ cfgEnv.stat[ExpandedKeyPath(c.ssh_private_key_path)] = "file"

\* C24: Load succeeds only if logging_level is one of debug, info, warn,
\* error, export_format one of txt, html, copy_method one of clone, basic,
\* full, disabled, and the SSH private key file exists; a file that could
\* be read, has its required fields and fails one of these gets an error
\* naming the offending field and value.
C24_ValidValues ==
    cfgOut.called =>
        LET c == Defaults(cfgIn, cfgEnv)
            good == /\ contains(validLogLevels, c.logging_level)
                    /\ contains(validFormats, c.export_format)
                    /\ contains(validCopyMethods, c.copy_method)
                    /\ KeyFileExists(c)
        IN  /\ ~cfgOut.res.nil => good
            /\ (cfgEnv.read = "ok" /\ Missing(cfgIn) = {} /\ ~good
                    /\ cfgOut.res.err.kind # "home")
                   => /\ cfgOut.res.err.kind \in {"invalid", "notexist"}
                      /\ cfgOut.res.err.field # ""

-----------------------------------------------------------------------------
(* Properties of exportMessages *)

HasPermissionMark ==
    \E i \in 1..Len(toolOut.output) : toolOut.output[i] \in PermissionMarks

HasConfigurationMark ==
    \E i \in 1..Len(toolOut.output) : toolOut.output[i] = ConfigurationMark

\* C26: exportMessages returns no error exactly when the tool exited with
\* status zero and its output holds no recognized marker; otherwise the
\* error is of category permission when a permission or database marker is
\* present (whatever the exit status and the other markers), configuration
\* when only 'Invalid configuration' is present, and generic with the
\* captured output when the exit status is non-zero and no marker is
\* present.
C26_ExportErrorCategory ==
    exportErr.called =>
        /\ exportErr.category = "nil"
               <=> (toolOut.exit = 0 /\ ~HasPermissionMark
                        /\ ~HasConfigurationMark)
        /\ HasPermissionMark => exportErr.category = "permission"
        /\ (~HasPermissionMark /\ HasConfigurationMark)
               => exportErr.category = "configuration"
        /\ (~HasPermissionMark /\ ~HasConfigurationMark /\ toolOut.exit # 0)
               => /\ exportErr.category = "generic"
                  /\ exportErr.text = toolOut.output

\* the tool exited with status zero after printing both kinds of marker,
\* and the error is the permission one
C26_Witness ==
    /\ exportErr.called /\ toolOut.exit = 0
    /\ toolOut.output = <<"Invalid configuration", "Full Disk Access">>
    /\ exportErr.category = "permission"

DigitValue(c) == CHOOSE n \in 0..9 : Digit(n) = c

\* the date a string YYYY-MM-DD names
ParseISO(s) ==
    <<1000 * DigitValue(s[1]) + 100 * DigitValue(s[2])
          + 10 * DigitValue(s[3]) + DigitValue(s[4]),
      10 * DigitValue(s[6]) + DigitValue(s[7]),
      10 * DigitValue(s[9]) + DigitValue(s[10])>>

\* d is a date of the calendar
IsCalendarDate(d) == CivilFromDay(DayNumber(d)) = d

\* C27: every export is started with the start date d of its date and the
\* end date d+1 calendar day, so each requested range is its own calendar
\* day and the ranges of one run are pairwise disjoint.
C27_OneDayRanges ==
    /\ Len(argLog) = Len(exportLog)
    /\ \A i \in 1..Len(argLog) :
           /\ Len(argLog[i].start) = 10 /\ Len(argLog[i].end) = 10
           /\ ParseISO(argLog[i].start) = exportLog[i]
           /\ IsCalendarDate(ParseISO(argLog[i].end))
           /\ DayNumber(ParseISO(argLog[i].end)) = DayNumber(exportLog[i]) + 1
    /\ \A i, j \in 1..Len(argLog) :
           i # j => \/ DayNumber(ParseISO(argLog[i].end))
                           <= DayNumber(ParseISO(argLog[j].start))
                    \/ DayNumber(ParseISO(argLog[j].end))
                           <= DayNumber(ParseISO(argLog[i].start))

\* the exports of 1 January and of 31 December before it were started, the
\* second one ending on 1 January
C27_Witness ==
    /\ Len(argLog) = 2
    /\ argLog[1].start = FormatISO(<<2024, 1, 1>>)
    /\ argLog[2].start = FormatISO(<<2023, 12, 31>>)
    /\ argLog[2].end = FormatISO(<<2024, 1, 1>>)

-----------------------------------------------------------------------------
(* Properties of the failures of processDateLocally *)

\* Run has left its loop with an error and is at or past its cleanup
Aborted == runErr = "date" /\ pc \in {"deferred", "exit", "done"}

\* C28: when the per-date directory cannot be listed there is no verdict,
\* the directory is not removed by processDateLocally, and Run aborts with
\* an error: no later date is processed and the transfer is not started.
C28_ListingFailureAborts ==
    /\ []("readdir" \in faults =>
              /\ Aborted /\ syncLog = <<>>
              /\ Len(verdicts) = idx - 1 /\ Len(exportLog) = idx
              /\ pc = "done" => exitStatus = 1)
    /\ [][("readdir" \in faults' /\ "readdir" \notin faults)
              => tree' = tree /\ content' = content /\ verdicts' = verdicts]_vars

\* the listing of the first of two dates failed; its directory is still
\* there when Run reaches its cleanup
C28_Witness ==
    /\ "readdir" \in faults /\ pc = "deferred" /\ idx = 1
    /\ Len(datesToProcess) = 2 /\ CurDir \in tree /\ cleanupCount = 0

\* C29: a failed removal is never escalated: when the removal of a
\* directory classified empty fails, processDateLocally returns nil and Run
\* goes on with the next date; when the final removal of LocalBatchRoot
\* fails, Run returns what it returns when the removal succeeds.
C29_RemovalFailuresNotEscalated ==
    /\ [](/\ runErr \in {"", "find", "mkroot", "date", "sync"}
          /\ (faults \subseteq {"rmdate", "cleanup"}) => runErr = ""
          /\ (pc = "done" /\ faults \subseteq {"rmdate", "cleanup"})
                 => exitStatus = 0)
    /\ [][(pc = "rmdate" /\ pc' # pc)
              => runErr' = runErr /\ idx' = idx + 1 /\ pc' = AfterDate(idx)]_vars
    /\ [][(pc = "deferred" /\ pc' # pc)
              => runErr' = runErr /\ pc' = "exit"]_vars

\* both removals of a run failed and the process ended with status 0 after
\* going on to its second date
C29_Witness ==
    /\ faults = {"rmdate", "cleanup"} /\ pc = "done" /\ exitStatus = 0
    /\ Len(verdicts) = 2 /\ verdicts[1] /\ RootDir \in tree
    /\ DatePath(datesToProcess[1]) \in tree

\* C30: when creating the per-date directory fails, processDateLocally
\* returns an error without starting the export tool and Run aborts: no
\* export is started for that date or a later one, and no transfer.
C30_MkdirFailureAborts ==
    /\ []("mkdate" \in faults =>
              /\ Aborted /\ syncLog = <<>>
              /\ Len(exportLog) = idx - 1 /\ Len(verdicts) = idx - 1)
    /\ [][("mkdate" \in faults' /\ "mkdate" \notin faults)
              => exportLog' = exportLog /\ tree' = tree]_vars

\* the directory of the second date could not be created after the first
\* date was exported, and Run has returned
C30_Witness ==
    /\ "mkdate" \in faults /\ pc = "exit" /\ idx = 2
    /\ Len(exportLog) = 1 /\ Len(datesToProcess) = 2 /\ runErr = "date"

\* C31: each run issues exactly one remote listing query, before any export
\* is started and whatever daysToCheck is: once findMissingArchives has run
\* the count of queries is one and stays one, no export is started before
\* the query, and the map built from the listing is never modified afterwards
C31_SingleRemoteQuery ==
    /\ [](remoteQueries <= 1)
    /\ [](pc # "start" => remoteQueries = 1)
    /\ [](exportLog # <<>> => remoteQueries = 1)
    /\ [][pc # "start" => UNCHANGED <<remoteQueries, remoteArchives>>]_vars

\* a run over a window of several days has exported, transferred and ended
\* with a non-empty index from its one query
C31_Witness ==
    /\ ended /\ daysToCheck = MaxRunDays /\ remoteQueries = 1
    /\ Len(exportLog) >= 1 /\ syncLog # <<>> /\ remoteArchives # {}

\* a step that calls cleanup(localRootDir)
CleanupStep == cleanupCount' = cleanupCount + 1

\* C32 as stated: every call of cleanup leaves the directory absent, and a
\* call on a directory that does not exist changes nothing and does not fail
C32_CleanupRemoves ==
    [][CleanupStep =>
          /\ RootDir \notin tree'
          /\ RootDir \notin tree =>
                 tree' = tree /\ content' = content /\ faults' = faults]_vars

\* C32: cleanup is idempotent.  A call whose os.RemoveAll succeeds leaves
\* nothing of the directory, contents included, and applying cleanup to that
\* result again gives the same result; a call on a directory that does not
\* exist changes nothing and does not fail; the only other outcome is a
\* failure of os.RemoveAll on an existing directory, which leaves the tree
\* as it was
C32_CleanupIdempotent ==
    /\ [](cleanup(cleanup(tree)) = cleanup(tree) /\ RootDir \notin cleanup(tree))
    /\ [][CleanupStep =>
             /\ \/ tree' = {} /\ DOMAIN content' = {}
                \/ RootDir \in tree /\ "cleanup" \in faults' /\ tree' = tree
             /\ RootDir \notin tree =>
                    tree' = tree /\ content' = content /\ faults' = faults]_vars

\* cleanup ran twice without a failure after a transfer of retained data,
\* and nothing of the directory is left
C32_Witness ==
    /\ cleanupCount = 2 /\ "cleanup" \notin faults /\ tree = {}
    /\ syncLog # <<>> /\ syncLog[1] # {}

\* the key path is written with a leading ~/
TildePath(p) == Len(p) >= 2 /\ p[1] = "~" /\ p[2] = "/"

\* where the key is looked for: below the home directory for a ~/ path,
\* else at the path as written
ExpectedKeyLocation(p) ==
    IF TildePath(p) THEN HomeDir \o <<"/">> \o SubSeq(p, 3, Len(p)) ELSE p

\* Load got as far as the existence check of the key
KeyChecked ==
    /\ cfgOut.called /\ cfgEnv.read = "ok" /\ Missing(cfgIn) = {}
    /\ TildePath(cfgIn.ssh_private_key_path) => cfgEnv.homeOK

\* C33: Load checks the existence of the SSH private key at the
\* tilde-expanded path (a leading ~/ replaced by the home directory): it
\* fails with the does-not-exist error, quoting the path as written, exactly
\* when nothing exists at that location; and a configuration it returns
\* carries ssh_private_key_path exactly as written in the file
C33_TildeExpandedCheckOnly ==
    /\ KeyChecked =>
          /\ cfgOut.res.err.kind = "notexist"
                 <=> cfgEnv.stat[ExpectedKeyLocation(
                         cfgIn.ssh_private_key_path)] = "ENOENT"
          /\ cfgOut.res.err.kind = "notexist" =>
                 /\ cfgOut.res.err.field = "ssh_private_key_path"
                 /\ cfgOut.res.err.value = cfgIn.ssh_private_key_path
    /\ (cfgOut.called /\ ~cfgOut.res.nil) =>
          cfgOut.res.cfg.ssh_private_key_path = cfgIn.ssh_private_key_path

\* Load succeeded for a key written ~/k that exists below the home directory
\* while nothing exists at /k, and returned the path unexpanded
C33_Witness ==
    /\ cfgOut.called /\ ~cfgOut.res.nil
    /\ cfgIn.ssh_private_key_path = <<"~", "/", "k">>
    /\ cfgEnv.stat[<<"/", "h", "/", "k">>] = "file"
    /\ cfgEnv.stat[<<"/", "k">>] = "ENOENT"
    /\ cfgOut.res.cfg.ssh_private_key_path = <<"~", "/", "k">>

\* C34: once the signal handler has called cleanup of LocalBatchRoot (here:
\* the call has returned and os.Exit has not yet run), the main flow creates
\* no directory under LocalBatchRoot, starts no export and starts no batch
\* transfer
C34_MainStopsAfterHandlerCleanup ==
    [][(hpc = "exit" /\ ~ended) =>
          /\ tree' \subseteq tree
          /\ exportLog' = exportLog
          /\ syncLog' = syncLog]_vars

\* the per-date directories of the dates of the gap list
GapDirs == {DatePath(datesToProcess[i]) : i \in 1..Len(datesToProcess)}

\* C35: every per-date directory present under LocalBatchRoot when the
\* batch transfer starts belongs to a date of the gap list of this run; a
\* per-date directory that was already below the root path when the run
\* started is never transferred
C35_OnlyGapDatesTransferred ==
    \A k \in 1..Len(syncLog) : syncLog[k] \subseteq GapDirs

\* the date loop has ended undisturbed with every date of the gap list
\* classified empty and every removal successful
AllDiscarded ==
    /\ pc = "checksync" /\ hpc = "wait" /\ cleanupCount = 0
    /\ datesToProcess # <<>> /\ Len(verdicts) = Len(datesToProcess)
    /\ \A i \in 1..Len(verdicts) : verdicts[i]
    /\ "rmdate" \notin faults

\* C36: when every date of the gap list was classified empty and every
\* removal succeeded, nothing of the gap dates is left under LocalBatchRoot
\* when the date loop ends: no per-date directory of a gap date, and no year
\* or month directory that does not lead to a remaining per-date directory
C36_NothingLeftOfDiscardedDates ==
    AllDiscarded =>
        /\ DayDirs(tree) \cap GapDirs = {}
        /\ \A q \in tree \ {RootDir} :
               \E r \in DayDirs(tree) : HasPrefix(r, q)

\* the loop of the classifier without its break: every entry is scanned
RECURSIVE ScanAll(_, _, _)
ScanAll(entries, i, f) ==
    IF i > Len(entries)
    THEN f
    ELSE ScanAll(entries, i + 1, ScanEntry(f, entries[i]))

\* the enumerations of the same entries in every order
Reorderings(entries) ==
    LET n == Len(entries)
        perms == {p \in [1..n -> 1..n] : \A i, j \in 1..n : p[i] = p[j] => i = j}
    IN  {[i \in 1..n |-> entries[p[i]]] : p \in perms}

ScanResultOf(b) == IF b THEN "true" ELSE "false"

\* C37: the result of isDirectoryEmpty depends only on the set of entries
\* and not on the order of their enumeration: every reordering of the
\* listing gets the same result, and it is the result a scan of all entries
\* without the early break would give
C37_VerdictIndependentOfOrder ==
    scanResult # "none" =>
        /\ \A l \in Reorderings(scanDir) :
               ScanResultOf(isDirectoryEmpty(l)) = scanResult
        /\ scanResult =
               ScanResultOf(Len(scanDir) = 0
                   \/ Verdict(ScanAll(scanDir, 1, NoFlags), Len(scanDir)))

\* the loop broke at the first entry of a full listing, with acceptable
\* entries after it that were never scanned
C37_Witness ==
    /\ scanResult = "false" /\ Len(scanDir) = MaxEntries
    /\ ~ScanEntry(NoFlags, scanDir[1]).hasOnlyEmptyArtifacts
    /\ \A i \in 2..Len(scanDir) :
           ScanEntry(NoFlags, scanDir[i]).hasOnlyEmptyArtifacts

\* C38: every configuration returned by a successful Load has
\* days_to_check >= 1, so the lookback window is a positive number of days
C38_DaysToCheckPositive ==
    (cfgOut.called /\ ~cfgOut.res.nil) => cfgOut.res.cfg.days_to_check >= 1

-----------------------------------------------------------------------------
(* Properties of the logger *)

\* the characters of a level name of the configuration
Spell(name) ==
    CASE name = "debug" -> <<"d", "e", "b", "u", "g">>
      [] name = "info" -> <<"i", "n", "f", "o">>
      [] name = "warn" -> <<"w", "a", "r", "n">>
      [] name = "warning" -> <<"w", "a", "r", "n", "i", "n", "g">>
      [] name = "error" -> <<"e", "r", "r", "o", "r">>

\* the threshold a level name stands for
LevelNamed(name) ==
    CASE name = "debug" -> DEBUG
      [] name = "info" -> INFO
      [] name = "warn" -> WARN
      [] name = "error" -> ERROR

\* the severity tags in the order DEBUG < INFO < WARN < ERROR
SeverityTag(s) == <<"[DEBUG]", "[INFO]", "[WARN]", "[ERROR]">>[s + 1]

\* no letter case of the string is a level name the logger knows
Unrecognized(s) ==
    ToLower(s) \notin
        {Spell(n) : n \in {"debug", "info", "warn", "warning", "error"}}

\* the tags of the calls among severities sevs that reach level l, in order
EmittedAt(l, sevs) ==
    LET Passes(s) == s \in sevs /\ s >= l
        kept == SelectSeq(logCalls, Passes)
    IN  [i \in 1..Len(kept) |-> SeverityTag(kept[i])]

\* C39: a logger created with level L emits a message of severity S
\* (DEBUG < INFO < WARN < ERROR) exactly when S >= L (DEBUG and INFO on
\* stdout, WARN and ERROR on stderr); every logging_level the configuration
\* accepts maps to the threshold of the same name, and an unrecognized
\* level string maps to INFO
C39_LoggerThreshold ==
    logger.made =>
        /\ logOut.stdout = EmittedAt(logger.level, {DEBUG, INFO})
        /\ logOut.stderr = EmittedAt(logger.level, {WARN, ERROR})
        /\ \A i \in 1..Len(validLogLevels) :
               logIn = Spell(validLogLevels[i]) =>
                   logger.level = LevelNamed(validLogLevels[i])
        /\ Unrecognized(logIn) => logger.level = INFO

\* a logger made for the level warn was called with one severity below its
\* threshold and two at or above it, and wrote only the latter
C39_Witness ==
    /\ logger.made /\ logIn = Spell("warn") /\ logger.level = WARN
    /\ logCalls = <<INFO, WARN, ERROR>>
    /\ logOut = [stdout |-> <<>>, stderr |-> <<"[WARN]", "[ERROR]">>]

====
